---- MODULE Spec2Model ----
(***************************************************************************)
(* Transactional write path of the User / Invoice service and its event    *)
(* consumer.                                                               *)
(*                                                                         *)
(* The store is a PostgreSQL database reached through                      *)
(* conn.transaction() (postgres/transaction.py:28) with the default        *)
(* isolation level, READ COMMITTED: every statement of a unit of work sees *)
(* the committed rows plus the unit's own uncommitted writes, a write to a *)
(* row another unit has written and not yet committed waits for that unit, *)
(* and the unique index on users.email and the foreign key                 *)
(* invoices.user_id -> users.id (ON DELETE CASCADE) are enforced by the    *)
(* store.  Each await of the services is one step of the model.            *)
(***************************************************************************)
EXTENDS Integers, Sequences, FiniteSets, TLC

\* ------------------------------------------------------------------------
\* Bounds of the model
\* ------------------------------------------------------------------------
\* service calls started in one behaviour
MaxCalls == 2

\* user ids a call may name or issue
MaxUsers == 2

\* invoice ids a call or a message may name or issue
MaxInvoices == 2

\* messages ever sent to the queue
MaxMsgs == 2

\* faults of store, topic and queue in one behaviour
MaxFaults == 1

\* messages one receive_message returns at most (SQSConsumerConfig.max_messages)
MaxMessages == 2

\* messages one consume_queue task of the worker handles in one behaviour
MaxHandled == 2

\* ------------------------------------------------------------------------
\* Values
\* ------------------------------------------------------------------------
\* Python None in a nullable column (users.age, invoices.paid_at)
Null == -1

\* the Unset sentinel (domain/types.py) in an integer-typed field
UNSET_INT == -2

\* the Unset sentinel in the email field (a string)
UNSET == "Unset"

\* the Unset sentinel in the name field (names are sequences of characters)
UNSET_NAME == <<"Unset">>

PENDING == "pending"

PAID == "paid"

USER_CREATED == "user.created"

USER_UPDATED == "user.updated"

INVOICE_CREATED == "invoice.created"

INVOICE_PAYMENT_REQUESTED == "invoice.payment_requested"

INVOICE_PAID == "invoice.paid"

\* the events that announce a mutation of an aggregate
MutationEvents == {USER_CREATED, USER_UPDATED, INVOICE_CREATED, INVOICE_PAID}

\* settings.event_queue_urls: the event types whose queue URL is configured
queue_urls == {USER_CREATED, INVOICE_PAYMENT_REQUESTED, INVOICE_PAID}

ApiProcs == {1, 2}

\* the unit of work run by InvoicePaymentRequestedHandler.handle
Worker == 3

Procs == ApiProcs \cup {Worker}

NoUser == [id |-> 0, email |-> "", name |-> <<>>, age |-> Null, created_at |-> 0, updated_at |-> 0]

NoInv == [id |-> 0, user_id |-> 0, amount |-> 0, status |-> "", created_at |-> 0, updated_at |-> 0,
          paid_at |-> Null]

NoErr == [kind |-> "none", entity_type |-> "", field |-> "", value |-> "", ident |-> 0, msg |-> <<>>]

DuplicateError(entity_type, field, value) ==
    [kind |-> "DuplicateError", entity_type |-> entity_type, field |-> field, value |-> value,
     ident |-> 0, msg |-> <<>>]

NotFoundErrorWithoutIdentifier(entity_type, identifier) ==
    [kind |-> "NotFoundError", entity_type |-> entity_type, field |-> "", value |-> "",
     ident |-> 0, msg |-> <<>>]

NotFoundError(entity_type, identifier) ==
    [kind |-> "NotFoundError", entity_type |-> entity_type, field |-> "", value |-> "",
     ident |-> identifier, msg |-> <<>>]

ValidationError(message, field) ==
    [kind |-> "ValidationError", entity_type |-> "", field |-> field, value |-> "", ident |-> 0,
     msg |-> message]

BusinessRuleError(message) ==
    [kind |-> "BusinessRuleError", entity_type |-> "", field |-> "", value |-> "", ident |-> 0,
     msg |-> message]

\* DatabaseError raised by the ORM repository (user/repo/sql.py wraps every fault)
DatabaseError == [kind |-> "DatabaseError", entity_type |-> "", field |-> "", value |-> "",
                  ident |-> 0, msg |-> <<>>]

\* a fault of the driver or the store that reaches the caller unwrapped
\* (invoice/repo/pg.py, tx.commit())
StoreFault == [kind |-> "StoreFault", entity_type |-> "", field |-> "", value |-> "",
               ident |-> 0, msg |-> <<>>]

\* pydantic's error when an event object fails its field validation
EventValidationError == [kind |-> "EventValidationError", entity_type |-> "", field |-> "",
                         value |-> "", ident |-> 0, msg |-> <<>>]

\* botocore ClientError re-raised by SNSPublisher.publish
PublishError == [kind |-> "ClientError", entity_type |-> "", field |-> "", value |-> "",
                 ident |-> 0, msg |-> <<>>]

NoArg == [uid |-> 0, email |-> "", name |-> <<>>, age |-> Null, iid |-> 0, amount |-> 0,
          limit |-> 0, offset |-> 0]

VARIABLES
    users,      \* committed rows of table users
    invoices,   \* committed rows of table invoices
    proc,       \* per unit of work: position, arguments, locals, uncommitted writes
    clock,      \* datetime.now()
    nextUid,    \* uuid7() for users
    nextIid,    \* uuid7() for invoices
    ncalls,     \* number of service calls started so far
    nfaults,    \* number of faults of store, topic and queue so far
    published,  \* events accepted by the topic, in order
    queue,      \* messages of the invoice.payment_requested queue
    nmsgs,      \* number of messages ever put on the queue
    consumer,   \* SQSConsumer.consume: position, batch, index
    dlog,       \* deliveries handled so far: message, invoice, outcome
    tasks,      \* worker main: the consume_queue task of every configured queue
    mainpc,     \* worker main: position of main()
    pool        \* the connection pool: free connections, the connection of every unit of work

vars == <<users, invoices, proc, clock, nextUid, nextIid, ncalls, nfaults, published, queue, nmsgs,
          consumer, dlog, tasks, mainpc, pool>>

mainVars == <<tasks, mainpc>>

storeVars == <<users, invoices>>

idVars == <<nextUid, nextIid>>

queueVars == <<queue, nmsgs, consumer, dlog>>

\* str(age) in generate_user_changes
str(v) == IF v = Null THEN "None" ELSE ToString(v)

\* the empty dictionary of changes
NoChanges ==
    [keys |-> {}, email |-> [old |-> "", new |-> ""], name |-> [old |-> <<>>, new |-> <<>>],
     age |-> [old |-> "", new |-> ""]]

IdleProc == [pc |-> "idle", op |-> "", pubFrom |-> 0, arg |-> NoArg, user |-> NoUser, inv |-> NoInv,
             err |-> NoErr, tx |-> "none", uw |-> {}, ud |-> {}, iw |-> {}, idl |-> {},
             wrote |-> 0, changes |-> NoChanges, items |-> <<>>, total |-> 0]

\* ------------------------------------------------------------------------
\* The store as one unit of work sees it (READ COMMITTED)
\* ------------------------------------------------------------------------
Ids(rows) == {r.id : r \in rows}

ViewUsers(p) ==
    {r \in users : r.id \notin proc[p].ud /\ r.id \notin Ids(proc[p].uw)} \cup proc[p].uw

ViewInvoices(p) ==
    {r \in invoices : r.id \notin proc[p].idl /\ r.id \notin Ids(proc[p].iw)} \cup proc[p].iw

Others(p) == {q \in Procs \ {p} : proc[q].tx = "open"}

\* SELECT ... FROM users WHERE id = $1
UserById(p, id) ==
    IF \E r \in ViewUsers(p) : r.id = id
    THEN CHOOSE r \in ViewUsers(p) : r.id = id
    ELSE NoUser

\* SELECT ... FROM users WHERE email = $1
UserByEmail(p, email) ==
    IF \E r \in ViewUsers(p) : r.email = email
    THEN CHOOSE r \in ViewUsers(p) : r.email = email
    ELSE NoUser

\* SELECT ... FROM invoices WHERE id = $1
InvoiceById(p, id) ==
    IF \E r \in ViewInvoices(p) : r.id = id
    THEN CHOOSE r \in ViewInvoices(p) : r.id = id
    ELSE NoInv

\* ------------------------------------------------------------------------
\* Constraints and row locks of the store
\* ------------------------------------------------------------------------
\* another open unit of work holds an uncommitted write of user row id
UserRowWait(p, id) ==
    \E q \in Others(p) : id \in proc[q].ud \/ id \in Ids(proc[q].uw)

\* another open unit of work holds an uncommitted write of invoice row id
InvoiceRowWait(p, id) ==
    \E q \in Others(p) : id \in proc[q].idl \/ id \in Ids(proc[q].iw)

\* users.email is unique (persistence/table.py:12, UserORM.email): the write
\* waits while the conflicting row is another unit's uncommitted write
UniqueWait(p, row) ==
    \E q \in Others(p) :
        \/ \E r \in proc[q].uw : r.email = row.email /\ r.id # row.id
        \/ \E r \in users : /\ r.email = row.email /\ r.id # row.id
                            /\ (r.id \in proc[q].ud \/ r.id \in Ids(proc[q].uw))

UniqueViolationNoIndex(p, row) == FALSE

\* users.email is unique: the write fails when a visible row of another id
\* has the same email
UniqueViolation(p, row) ==
    \E r \in ViewUsers(p) : r.email = row.email /\ r.id # row.id

\* invoices.user_id references users.id: the insert waits while another unit
\* holds an uncommitted delete of the user row
FkWait(p, uid) == \E q \in Others(p) : uid \in proc[q].ud

FkViolationNever(p, uid) == FALSE

\* invoices.user_id references users.id
FkViolation(p, uid) == uid \notin Ids(ViewUsers(p))

\* the delete of a user row waits while another unit holds an uncommitted
\* insert of an invoice that references it
FkDeleteWait(p, uid) ==
    \E q \in Others(p) : \E r \in proc[q].iw : r.user_id = uid /\ r.id \notin Ids(invoices)

\* ------------------------------------------------------------------------
\* Steps of a unit of work
\* ------------------------------------------------------------------------
Upd(p, r) == [proc EXCEPT ![p] = r]

\* an exception leaves the block of `async with tx_manager.transaction()`
Raise(p, e) == Upd(p, [proc[p] EXCEPT !.pc = "rollback", !.err = e])

Goto(p, label) == Upd(p, [proc[p] EXCEPT !.pc = label])

PutUser(r, row) ==
    [r EXCEPT !.uw = {x \in @ : x.id # row.id} \cup {row}, !.wrote = @ + 1]

DelUserKeepsRow(r, id) == [r EXCEPT !.wrote = @ + 1]

DelUser(r, id) ==
    [r EXCEPT !.uw = {x \in @ : x.id # id}, !.ud = @ \cup {id}, !.wrote = @ + 1]

PutInvoice(r, row) ==
    [r EXCEPT !.iw = {x \in @ : x.id # row.id} \cup {row}, !.wrote = @ + 1]

DelInvoices(r, ids) ==
    [r EXCEPT !.iw = {x \in @ : x.id \notin ids}, !.idl = @ \cup ids, !.wrote = @ + 1]

Event(type, aggType, aggId, p) ==
    [event_type |-> type, aggregate_type |-> aggType, aggregate_id |-> aggId,
     by |-> p]

\* a service call enters `async with self._tx_manager.transaction()`: tx.start()
Begin(p, op, arg, first) ==
    /\ proc[p].pc \in {"idle", "done"}
    /\ proc' = Upd(p, [IdleProc EXCEPT !.pc = first, !.op = op, !.pubFrom = Len(published),
                                       !.arg = arg, !.tx = "open"])

AfterCommitReturns(op) == "done"

\* where the service continues after the transaction scope
AfterCommit(op) == IF op = "create_invoice" THEN "ci_publish2" ELSE "done"

RolledBackUsersApplied(p) == ViewUsers(p)

\* table users after tx.rollback()
RolledBackUsers(p) == users

RolledBackInvoicesApplied(p) == ViewInvoices(p)

\* table invoices after tx.rollback()
RolledBackInvoices(p) == invoices

\* the block completed: tx.commit()
TxCommit(p) ==
    /\ proc[p].pc = "commit"
    /\ users' = ViewUsers(p)
    /\ invoices' = ViewInvoices(p)
    /\ proc' = Upd(p, [proc[p] EXCEPT !.pc = AfterCommit(proc[p].op), !.tx = "committed",
                                      !.uw = {}, !.ud = {}, !.iw = {}, !.idl = {}])
    /\ UNCHANGED <<mainVars, pool, clock, idVars, ncalls, nfaults, published, queueVars>>

\* tx.commit() raises: the except clause of the manager runs next
TxCommitFail(p) ==
    /\ nfaults < MaxFaults
    /\ nfaults' = nfaults + 1
    /\ proc[p].pc = "commit"
    /\ proc' = Raise(p, StoreFault)
    /\ UNCHANGED <<mainVars, pool, storeVars, clock, idVars, ncalls, published, queueVars>>

\* except Exception: tx.rollback(); raise ex
TxRollback(p) ==
    /\ proc[p].pc = "rollback"
    /\ users' = RolledBackUsers(p)
    /\ invoices' = RolledBackInvoices(p)
    /\ proc' = Upd(p, [proc[p] EXCEPT !.pc = "done", !.tx = "rolledback",
                                      !.uw = {}, !.ud = {}, !.iw = {}, !.idl = {}])
    /\ UNCHANGED <<mainVars, pool, clock, idVars, ncalls, nfaults, published, queueVars>>

\* the steps that run a statement through the ORM user repository
UserRepoSteps == {"cu_check", "cu_insert", "pu_get", "pu_check", "pu_update", "du_get", "du_user"}

\* the steps that run a statement through the raw-statement invoice repository
InvoiceRepoSteps == {"ci_insert", "mp_get", "mp_update", "rp_get", "du_invoices"}

\* a statement fails in the store or the driver
RepoFault(p) ==
    /\ nfaults < MaxFaults
    /\ nfaults' = nfaults + 1
    /\ proc[p].pc \in UserRepoSteps \cup InvoiceRepoSteps
    /\ proc' = Raise(p, IF proc[p].pc \in UserRepoSteps THEN DatabaseError ELSE StoreFault)
    /\ UNCHANGED <<mainVars, pool, storeVars, clock, idVars, ncalls, published, queueVars>>

\* SNS delivers a published invoice.payment_requested event to its queue
Deliver(e) ==
    IF e.event_type = INVOICE_PAYMENT_REQUESTED
    THEN /\ queue' = queue \cup {[id |-> nmsgs + 1, kind |-> "event", event_type |-> e.event_type,
                                  aggregate_id |-> e.aggregate_id, visible |-> TRUE]}
         /\ nmsgs' = nmsgs + 1
    ELSE UNCHANGED <<queue, nmsgs>>

\* EventPublisher.publish -> SNSPublisher.publish succeeds
Publish(e) ==
    /\ published' = Append(published, e)
    /\ Deliver(e)

PublishSteps == {"cu_publish", "pu_publish", "ci_publish", "ci_publish2", "mp_publish", "rp_publish"}

PublishFailSwallowed(p) ==
    /\ nfaults < MaxFaults
    /\ nfaults' = nfaults + 1
    /\ proc[p].pc \in PublishSteps
    /\ proc' = Goto(p, IF proc[p].tx = "open" THEN "commit" ELSE "done")
    /\ UNCHANGED <<mainVars, pool, storeVars, clock, idVars, ncalls, published, queueVars>>

\* SNSPublisher.publish raises ClientError
PublishFail(p) ==
    /\ nfaults < MaxFaults
    /\ nfaults' = nfaults + 1
    /\ proc[p].pc \in PublishSteps
    /\ proc' = IF proc[p].tx = "open"
               THEN Raise(p, PublishError)
               ELSE Upd(p, [proc[p] EXCEPT !.pc = "done", !.err = PublishError])
    /\ UNCHANGED <<mainVars, pool, storeVars, clock, idVars, ncalls, published, queueVars>>

\* ------------------------------------------------------------------------
\* UserService
\* ------------------------------------------------------------------------
Emails == {"a@b.com", "c@d.com"}

\* "A" and the empty name
Names == {<<"A">>, <<>>}

Ages == {Null, 30}

CallCreateUser(p, emails, names, ages) ==
    /\ p \in ApiProcs
    /\ ncalls < MaxCalls
    /\ ncalls' = ncalls + 1
    /\ \E email \in emails, name \in names, age \in ages :
          Begin(p, "create_user", [NoArg EXCEPT !.email = email, !.name = name, !.age = age],
                "cu_check")
    /\ UNCHANGED <<mainVars, pool, storeVars, clock, idVars, nfaults, published, queueVars>>

EmailInUseNever(p, email) == FALSE

\* existing = await self._repo.get_by_email(email); existing is not None
EmailInUse(p, email) == UserByEmail(p, email) # NoUser

\* create_user: the existence check
CuCheck(p) ==
    /\ proc[p].pc = "cu_check"
    /\ proc' = IF EmailInUse(p, proc[p].arg.email)
               THEN Raise(p, DuplicateError("User", "email", proc[p].arg.email))
               ELSE Goto(p, "cu_insert")
    /\ UNCHANGED <<mainVars, pool, storeVars, clock, idVars, ncalls, nfaults, published, queueVars>>

\* create_user: uuid7(), datetime.now(), self._repo.create
CuInsert(p) ==
    /\ proc[p].pc = "cu_insert"
    /\ nextUid <= MaxUsers
    /\ LET a == proc[p].arg
           row == [id |-> nextUid, email |-> a.email, name |-> a.name, age |-> a.age,
                   created_at |-> clock, updated_at |-> clock]
       IN /\ ~UniqueWait(p, row)
          /\ IF UniqueViolation(p, row)
             THEN /\ proc' = Raise(p, DatabaseError)
                  /\ UNCHANGED nextUid
             ELSE /\ proc' = Upd(p, [PutUser(proc[p], row) EXCEPT !.pc = "cu_publish",
                                                                  !.user = row])
                  /\ nextUid' = nextUid + 1
    /\ clock' = clock + 1
    /\ UNCHANGED <<mainVars, pool, storeVars, nextIid, ncalls, nfaults, published, queueVars>>

InvalidEmails == {"not-an-email"}

\* UserCreatedEvent: email is an EmailStr, name has min_length 1 and max_length 255
ValidUserCreatedEvent(u) == u.email \notin InvalidEmails /\ Len(u.name) >= 1 /\ Len(u.name) <= 255

\* create_user: UserCreatedEvent(...), self._event_publisher.publish(event)
CuPublish(p) ==
    /\ proc[p].pc = "cu_publish"
    /\ IF ValidUserCreatedEvent(proc[p].user)
       THEN /\ Publish(Event(USER_CREATED, "user", proc[p].user.id, p))
            /\ proc' = Goto(p, "commit")
       ELSE /\ proc' = Raise(p, EventValidationError)
            /\ UNCHANGED <<published, queue, nmsgs>>
    /\ UNCHANGED <<mainVars, pool, storeVars, clock, idVars, ncalls, nfaults, consumer, dlog>>

Whitespace == {" ", "\t", "\n"}

RECURSIVE LStrip(_)
LStrip(s) == IF s = <<>> THEN s ELSE IF Head(s) \in Whitespace THEN LStrip(Tail(s)) ELSE s

RECURSIVE RStrip(_)
RStrip(s) ==
    IF s = <<>> THEN s
    ELSE IF s[Len(s)] \in Whitespace THEN RStrip(SubSeq(s, 1, Len(s) - 1)) ELSE s

\* str.strip()
Strip(s) == RStrip(LStrip(s))

NameRejectedWhenEmpty(name) == name = <<>>

\* validate_name raises: name is not Unset and (not name or not name.strip())
NameRejected(name) == name # UNSET_NAME /\ (name = <<>> \/ Strip(name) = <<>>)

NeedsEmailLookupWhenGiven(email, current_email) == email # UNSET

\* validate_email_not_duplicate reaches repository.get_by_email
NeedsEmailLookup(email, current_email) == email # UNSET /\ email # current_email

generate_user_changesOfSupplied(upd, original) ==
    [keys |-> {f \in {"email"} : upd.email # UNSET} \cup {f \in {"name"} : upd.name # UNSET_NAME}
              \cup {f \in {"age"} : upd.age # UNSET_INT},
     email |-> IF upd.email # UNSET THEN [old |-> original.email, new |-> upd.email]
               ELSE NoChanges.email,
     name |-> IF upd.name # UNSET_NAME THEN [old |-> original.name, new |-> upd.name]
              ELSE NoChanges.name,
     age |-> IF upd.age # UNSET_INT THEN [old |-> str(original.age), new |-> str(upd.age)]
             ELSE NoChanges.age]

\* generate_user_changes: the dictionary of changes, its keys and the old and
\* new value under each key
generate_user_changes(upd, original) ==
    LET email == upd.email # UNSET /\ upd.email # original.email
        name == upd.name # UNSET_NAME /\ upd.name # original.name
        age == upd.age # UNSET_INT /\ upd.age # original.age
    IN [keys |-> {f \in {"email"} : email} \cup {f \in {"name"} : name}
                 \cup {f \in {"age"} : age},
        email |-> IF email THEN [old |-> original.email, new |-> upd.email] ELSE NoChanges.email,
        name |-> IF name THEN [old |-> original.name, new |-> upd.name] ELSE NoChanges.name,
        age |-> IF age THEN [old |-> str(original.age), new |-> str(upd.age)]
                ELSE NoChanges.age]

PatchEmails == {UNSET} \cup Emails

PatchNames == {UNSET_NAME, <<"B">>, <<" ">>, <<>>}

PatchAges == {UNSET_INT, Null, 31}

CallPatchUser(p, emails, names, ages) ==
    /\ p \in ApiProcs
    /\ ncalls < MaxCalls
    /\ ncalls' = ncalls + 1
    /\ \E uid \in 1..MaxUsers, email \in emails, name \in names, age \in ages :
          Begin(p, "patch_user",
                [NoArg EXCEPT !.uid = uid, !.email = email, !.name = name, !.age = age], "pu_get")
    /\ UNCHANGED <<mainVars, pool, storeVars, clock, idVars, nfaults, published, queueVars>>

\* patch_user: get_by_id, validate_name, the synchronous part of
\* validate_email_not_duplicate
PuGet(p) ==
    /\ proc[p].pc = "pu_get"
    /\ LET a == proc[p].arg
           user == UserById(p, a.uid)
       IN proc' = IF user = NoUser THEN Raise(p, NotFoundError("User", a.uid))
                  ELSE IF NameRejected(a.name)
                  THEN Raise(p, ValidationError(<<"Name", "cannot", "be", "empty">>, "name"))
                  ELSE Upd(p, [proc[p] EXCEPT !.user = user,
                                   !.pc = IF NeedsEmailLookup(a.email, user.email)
                                          THEN "pu_check" ELSE "pu_update"])
    /\ UNCHANGED <<mainVars, pool, storeVars, clock, idVars, ncalls, nfaults, published, queueVars>>

\* patch_user: validate_email_not_duplicate's lookup
PuCheck(p) ==
    /\ proc[p].pc = "pu_check"
    /\ proc' = IF EmailInUse(p, proc[p].arg.email)
               THEN Raise(p, DuplicateError("User", "email", proc[p].arg.email))
               ELSE Goto(p, "pu_update")
    /\ UNCHANGED <<mainVars, pool, storeVars, clock, idVars, ncalls, nfaults, published, queueVars>>

\* Python None in the email and name fields of an update
NONE_STR == "None"

NONE_NAME == <<"None">>

\* update_partial: `if update.<field> is not None` for each field
AssignedFields(upd) ==
    {f \in {"email"} : upd.email # NONE_STR}
    \cup {f \in {"name"} : upd.name # NONE_NAME}
    \cup {f \in {"age"} : upd.age # Null}

\* the flush binds an Unset object to a column: the driver rejects it
BindsUnset(upd) ==
    \/ "email" \in AssignedFields(upd) /\ upd.email = UNSET
    \/ "name" \in AssignedFields(upd) /\ upd.name = UNSET_NAME
    \/ "age" \in AssignedFields(upd) /\ upd.age = UNSET_INT

\* the row update_partial writes
PatchedRow(row, upd, now) ==
    [row EXCEPT !.email = IF "email" \in AssignedFields(upd) THEN upd.email ELSE @,
                !.name = IF "name" \in AssignedFields(upd) THEN upd.name ELSE @,
                !.age = IF "age" \in AssignedFields(upd) THEN upd.age ELSE @,
                !.updated_at = now]

\* patch_user: generate_user_changes, self._repo.update_partial
PuUpdate(p) ==
    /\ proc[p].pc = "pu_update"
    /\ LET a == proc[p].arg
           changes == generate_user_changes(a, proc[p].user)
           orm_user == UserById(p, a.uid)
           row == PatchedRow(orm_user, a, clock)
       IN IF orm_user = NoUser
          THEN proc' = Raise(p, DatabaseError)
          ELSE IF AssignedFields(a) = {}
          THEN \* NoFieldsToUpdateError: return user
               proc' = Goto(p, "commit")
          ELSE IF BindsUnset(a)
          THEN proc' = Raise(p, DatabaseError)
          ELSE /\ ~UserRowWait(p, a.uid)
               /\ ~UniqueWait(p, row)
               /\ proc' = IF UniqueViolation(p, row)
                          THEN Raise(p, DatabaseError)
                          ELSE Upd(p, [PutUser(proc[p], row) EXCEPT
                                          !.user = row, !.changes = changes,
                                          !.pc = IF changes.keys # {} THEN "pu_publish"
                                                ELSE "commit"])
    /\ clock' = clock + 1
    /\ UNCHANGED <<mainVars, pool, storeVars, idVars, ncalls, nfaults, published, queueVars>>

\* patch_user: UserUpdatedEvent(...), publish
PuPublish(p) ==
    /\ proc[p].pc = "pu_publish"
    /\ Publish(Event(USER_UPDATED, "user", proc[p].user.id, p) @@ [changes |-> proc[p].changes])
    /\ proc' = Goto(p, "commit")
    /\ UNCHANGED <<mainVars, pool, storeVars, clock, idVars, ncalls, nfaults, consumer, dlog>>

CallDeleteUser(p) ==
    /\ p \in ApiProcs
    /\ ncalls < MaxCalls
    /\ ncalls' = ncalls + 1
    /\ \E uid \in 1..MaxUsers :
          Begin(p, "delete_user", [NoArg EXCEPT !.uid = uid], "du_get")
    /\ UNCHANGED <<mainVars, pool, storeVars, clock, idVars, nfaults, published, queueVars>>

\* delete_user: get_by_id
DuGet(p) ==
    /\ proc[p].pc = "du_get"
    /\ LET user == UserById(p, proc[p].arg.uid)
       IN proc' = IF user = NoUser THEN Raise(p, NotFoundError("User", proc[p].arg.uid))
                  ELSE Upd(p, [proc[p] EXCEPT !.user = user, !.pc = "du_invoices"])
    /\ UNCHANGED <<mainVars, pool, storeVars, clock, idVars, ncalls, nfaults, published, queueVars>>

InvoicesOf(p, uid) == {r \in ViewInvoices(p) : r.user_id = uid}

\* the cascade run through a method that closes a transaction scope itself
DuInvoicesOwnScope(p) ==
    /\ proc[p].pc = "du_invoices"
    /\ LET targets == Ids(InvoicesOf(p, proc[p].user.id))
       IN /\ \A i \in targets : ~InvoiceRowWait(p, i)
          /\ proc' = Upd(p, [DelInvoices(proc[p], targets) EXCEPT !.pc = "du_user",
                                                                  !.tx = "committed"])
    /\ UNCHANGED <<mainVars, pool, storeVars, clock, idVars, ncalls, nfaults, published, queueVars>>

\* delete_user: InvoiceService._delete_invoices_by_user_id_in_transaction,
\* DELETE FROM invoices WHERE user_id = $1
DuInvoices(p) ==
    /\ proc[p].pc = "du_invoices"
    /\ LET targets == Ids(InvoicesOf(p, proc[p].user.id))
       IN /\ \A i \in targets : ~InvoiceRowWait(p, i)
          /\ proc' = Upd(p, [DelInvoices(proc[p], targets) EXCEPT !.pc = "du_user"])
    /\ UNCHANGED <<mainVars, pool, storeVars, clock, idVars, ncalls, nfaults, published, queueVars>>

\* delete_user: self._repo.delete(user_id); the store cascades to the
\* invoices that still reference the row
DuUser(p) ==
    /\ proc[p].pc = "du_user"
    /\ LET uid == proc[p].arg.uid
           cascade == Ids(InvoicesOf(p, uid))
       IN IF UserById(p, uid) = NoUser
          THEN proc' = Goto(p, "commit")
          ELSE /\ ~UserRowWait(p, uid)
               /\ ~FkDeleteWait(p, uid)
               /\ \A i \in cascade : ~InvoiceRowWait(p, i)
               /\ proc' = Upd(p, [DelUser([proc[p] EXCEPT
                                              !.iw = {x \in @ : x.id \notin cascade},
                                              !.idl = @ \cup cascade], uid)
                                  EXCEPT !.pc = "commit"])
    /\ UNCHANGED <<mainVars, pool, storeVars, clock, idVars, ncalls, nfaults, published, queueVars>>

\* ------------------------------------------------------------------------
\* InvoiceService
\* ------------------------------------------------------------------------
\* amounts in cents
Amounts == {10000, 0, -500}

CallCreateInvoice(p, amounts) ==
    /\ p \in ApiProcs
    /\ ncalls < MaxCalls
    /\ ncalls' = ncalls + 1
    /\ \E uid \in 1..MaxUsers, amount \in amounts :
          Begin(p, "create_invoice", [NoArg EXCEPT !.uid = uid, !.amount = amount], "ci_insert")
    /\ UNCHANGED <<mainVars, pool, storeVars, clock, idVars, nfaults, published, queueVars>>

\* create_invoice: uuid7(), datetime.now(), self._repo.create
CiInsert(p) ==
    /\ proc[p].pc = "ci_insert"
    /\ nextIid <= MaxInvoices
    /\ LET a == proc[p].arg
           row == [id |-> nextIid, user_id |-> a.uid, amount |-> a.amount, status |-> PENDING,
                   created_at |-> clock, updated_at |-> clock, paid_at |-> Null]
       IN /\ ~FkWait(p, a.uid)
          /\ IF FkViolation(p, a.uid)
             THEN /\ proc' = Raise(p, StoreFault)
                  /\ UNCHANGED nextIid
             ELSE /\ proc' = Upd(p, [PutInvoice(proc[p], row) EXCEPT !.pc = "ci_publish",
                                                                     !.inv = row])
                  /\ nextIid' = nextIid + 1
    /\ clock' = clock + 1
    /\ UNCHANGED <<mainVars, pool, storeVars, nextUid, ncalls, nfaults, published, queueVars>>

\* InvoiceCreatedEvent / InvoicePaidEvent: amount has gt=0 and validate_amount
ValidAmountEventAlways(inv) == TRUE

ValidAmountEvent(inv) == inv.amount > 0

\* create_invoice: InvoiceCreatedEvent(...), publish, inside the transaction
CiPublish(p) ==
    /\ proc[p].pc = "ci_publish"
    /\ IF ValidAmountEvent(proc[p].inv)
       THEN /\ Publish(Event(INVOICE_CREATED, "invoice", proc[p].inv.id, p))
            /\ proc' = Goto(p, "commit")
       ELSE /\ proc' = Raise(p, EventValidationError)
            /\ UNCHANGED <<published, queue, nmsgs>>
    /\ UNCHANGED <<mainVars, pool, storeVars, clock, idVars, ncalls, nfaults, consumer, dlog>>

\* create_invoice: InvoicePaymentRequestedEvent(...), publish, after the
\* transaction scope
CiPublish2(p) ==
    /\ proc[p].pc = "ci_publish2"
    /\ Publish(Event(INVOICE_PAYMENT_REQUESTED, "invoice", proc[p].inv.id, p))
    /\ proc' = Goto(p, "done")
    /\ UNCHANGED <<mainVars, pool, storeVars, clock, idVars, ncalls, nfaults, consumer, dlog>>

CallMarkInvoicePaid(p) ==
    /\ p \in ApiProcs
    /\ ncalls < MaxCalls
    /\ ncalls' = ncalls + 1
    /\ \E iid \in 1..MaxInvoices :
          Begin(p, "mark_invoice_paid", [NoArg EXCEPT !.iid = iid], "mp_get")
    /\ UNCHANGED <<mainVars, pool, storeVars, clock, idVars, nfaults, published, queueVars>>

AlreadyPaidIgnored(inv) == FALSE

\* mark_invoice_paid: invoice.status == InvoiceStatus.PAID
AlreadyPaid(inv) == inv.status = PAID

\* mark_invoice_paid: get_by_id and the business rule
MpGet(p) ==
    /\ proc[p].pc = "mp_get"
    /\ LET inv == InvoiceById(p, proc[p].arg.iid)
       IN proc' = IF inv = NoInv THEN Raise(p, NotFoundError("Invoice", proc[p].arg.iid))
                  ELSE IF AlreadyPaid(inv)
                  THEN Raise(p, BusinessRuleError(<<"Invoice", "is", "already", "paid">>))
                  ELSE Upd(p, [proc[p] EXCEPT !.inv = inv, !.pc = "mp_update"])
    /\ UNCHANGED <<mainVars, pool, storeVars, clock, idVars, ncalls, nfaults, published, queueVars>>

\* a RuntimeError of the raw-statement repository ("no row returned")
RuntimeError == [kind |-> "RuntimeError", entity_type |-> "", field |-> "", value |-> "",
                 ident |-> 0, msg |-> <<>>]

\* mark_invoice_paid: Invoice(... status=PAID, paid_at=now, updated_at=now),
\* UPDATE invoices SET status, paid_at, updated_at WHERE id = $1 RETURNING ...
MpUpdate(p) ==
    /\ proc[p].pc = "mp_update"
    /\ LET updated == [proc[p].inv EXCEPT !.status = PAID, !.paid_at = clock,
                                          !.updated_at = clock + 1]
           stored == InvoiceById(p, updated.id)
           row == [stored EXCEPT !.status = updated.status, !.paid_at = updated.paid_at,
                                 !.updated_at = updated.updated_at]
       IN /\ ~InvoiceRowWait(p, updated.id)
          /\ proc' = IF stored = NoInv THEN Raise(p, RuntimeError)
                     ELSE Upd(p, [PutInvoice(proc[p], row) EXCEPT !.inv = row,
                                                                  !.pc = "mp_publish"])
    /\ clock' = clock + 2
    /\ UNCHANGED <<mainVars, pool, storeVars, idVars, ncalls, nfaults, published, queueVars>>

\* mark_invoice_paid: InvoicePaidEvent(...), publish
MpPublish(p) ==
    /\ proc[p].pc = "mp_publish"
    /\ IF ValidAmountEvent(proc[p].inv)
       THEN /\ Publish(Event(INVOICE_PAID, "invoice", proc[p].inv.id, p))
            /\ proc' = Goto(p, "commit")
       ELSE /\ proc' = Raise(p, EventValidationError)
            /\ UNCHANGED <<published, queue, nmsgs>>
    /\ UNCHANGED <<mainVars, pool, storeVars, clock, idVars, ncalls, nfaults, consumer, dlog>>

CallRequestPayment(p) ==
    /\ p \in ApiProcs
    /\ ncalls < MaxCalls
    /\ ncalls' = ncalls + 1
    /\ \E iid \in 1..MaxInvoices :
          Begin(p, "request_payment", [NoArg EXCEPT !.iid = iid], "rp_get")
    /\ UNCHANGED <<mainVars, pool, storeVars, clock, idVars, nfaults, published, queueVars>>

RpGetPendingOnly(p) ==
    /\ proc[p].pc = "rp_get"
    /\ LET inv == InvoiceById(p, proc[p].arg.iid)
       IN proc' = IF inv = NoInv THEN Raise(p, NotFoundError("Invoice", proc[p].arg.iid))
                  ELSE IF AlreadyPaid(inv)
                  THEN Raise(p, BusinessRuleError(<<"Invoice", "is", "already", "paid">>))
                  ELSE Upd(p, [proc[p] EXCEPT !.inv = inv, !.pc = "rp_publish"])
    /\ UNCHANGED <<mainVars, pool, storeVars, clock, idVars, ncalls, nfaults, published, queueVars>>

\* request_payment: get_by_id
RpGet(p) ==
    /\ proc[p].pc = "rp_get"
    /\ LET inv == InvoiceById(p, proc[p].arg.iid)
       IN proc' = IF inv = NoInv THEN Raise(p, NotFoundError("Invoice", proc[p].arg.iid))
                  ELSE Upd(p, [proc[p] EXCEPT !.inv = inv, !.pc = "rp_publish"])
    /\ UNCHANGED <<mainVars, pool, storeVars, clock, idVars, ncalls, nfaults, published, queueVars>>

\* request_payment: InvoicePaymentRequestedEvent(...), publish
RpPublish(p) ==
    /\ proc[p].pc = "rp_publish"
    /\ Publish(Event(INVOICE_PAYMENT_REQUESTED, "invoice", proc[p].arg.iid, p))
    /\ proc' = Goto(p, "commit")
    /\ UNCHANGED <<mainVars, pool, storeVars, clock, idVars, ncalls, nfaults, consumer, dlog>>

\* ------------------------------------------------------------------------
\* The raw-statement UserRepository (user/repo/pg.py)
\* ------------------------------------------------------------------------
\* _row_to_user: User.model_validate(dict(row)); User declares `age: int | None`
\* without a default, so a row without that key fails validation
row_to_user(row) ==
    IF "age" \in DOMAIN row THEN [user |-> row, kind |-> "none"]
    ELSE [user |-> NoUser, kind |-> "ValidationError"]

\* get_by_id: SELECT id, email, name, created_at, updated_at FROM users
\* WHERE id = $1; None when there is no row
pg_get_by_id(p, user_id) ==
    LET stored == UserById(p, user_id)
        row == [c \in {"id", "email", "name", "created_at", "updated_at"} |-> stored[c]]
    IN IF stored = NoUser THEN [user |-> NoUser, kind |-> "none"]
       ELSE row_to_user(row)

\* ------------------------------------------------------------------------
\* list_users and list_invoices
\* ------------------------------------------------------------------------
RECURSIVE OrderByCreatedAtAsc(_)
OrderByCreatedAtAsc(rows) ==
    IF rows = {} THEN <<>>
    ELSE LET first == CHOOSE r \in rows : \A x \in rows : x.created_at >= r.created_at
         IN <<first>> \o OrderByCreatedAtAsc(rows \ {first})

\* ORDER BY created_at DESC
RECURSIVE OrderByCreatedAtDesc(_)
OrderByCreatedAtDesc(rows) ==
    IF rows = {} THEN <<>>
    ELSE LET first == CHOOSE r \in rows : \A x \in rows : x.created_at <= r.created_at
         IN <<first>> \o OrderByCreatedAtDesc(rows \ {first})

\* LIMIT limit OFFSET offset
LimitOffset(seq, limit, offset) ==
    SubSeq(seq, offset + 1, IF offset + limit < Len(seq) THEN offset + limit ELSE Len(seq))

\* the rows a list or count statement of p ranges over: table users, or table
\* invoices with `WHERE user_id = $1` when a user_id is given
Matching(p) ==
    IF proc[p].op = "list_users" THEN ViewUsers(p)
    ELSE {r \in ViewInvoices(p) : proc[p].arg.uid = 0 \/ r.user_id = proc[p].arg.uid}

\* list_users(limit, offset), list_invoices(limit, offset, user_id): user_id 0
\* stands for None
CallList(p) ==
    /\ p \in ApiProcs
    /\ ncalls < MaxCalls
    /\ ncalls' = ncalls + 1
    /\ \E limit \in 0..2, offset \in 0..2 :
          \/ Begin(p, "list_users", [NoArg EXCEPT !.limit = limit, !.offset = offset], "ls_list")
          \/ \E uid \in 0..MaxUsers :
                Begin(p, "list_invoices",
                      [NoArg EXCEPT !.limit = limit, !.offset = offset, !.uid = uid], "ls_list")
    /\ UNCHANGED <<mainVars, pool, storeVars, clock, idVars, nfaults, published, queueVars>>

\* await self._repo.list(limit, offset[, user_id])
LsList(p) ==
    /\ proc[p].pc = "ls_list"
    /\ proc' = Upd(p, [proc[p] EXCEPT
                          !.items = LimitOffset(OrderByCreatedAtDesc(Matching(p)),
                                                proc[p].arg.limit, proc[p].arg.offset),
                          !.pc = "ls_count"])
    /\ UNCHANGED <<mainVars, pool, storeVars, clock, idVars, ncalls, nfaults, published, queueVars>>

\* await self._repo.count([user_id])
LsCount(p) ==
    /\ proc[p].pc = "ls_count"
    /\ proc' = Upd(p, [proc[p] EXCEPT !.total = Cardinality(Matching(p)), !.pc = "commit"])
    /\ UNCHANGED <<mainVars, pool, storeVars, clock, idVars, ncalls, nfaults, published, queueVars>>

\* ------------------------------------------------------------------------
\* SQSConsumer.consume on the invoice.payment_requested queue
\* ------------------------------------------------------------------------
IdleConsumer == [pc |-> "receive", batch |-> <<>>, idx |-> 0, ok |-> FALSE]

Msg(id) == CHOOSE m \in queue : m.id = id

\* the message the loop `for message in messages` is at
Current == consumer.batch[consumer.idx]

\* the sequences of n distinct message ids drawn from a set
Batches(S, n) == {b \in [1..n -> S] : \A i, j \in 1..n : i # j => b[i] # b[j]}

\* a producer sends a message to the queue: a further invoice.payment_requested
\* event (request_payment, or a duplicate the topic delivers), an event of
\* another type, of a type without an event class or without event_type, or a
\* body that is not an event
Send ==
    /\ nmsgs < MaxMsgs
    /\ \E body \in {[kind |-> "garbage", event_type |-> "", aggregate_id |-> 0],
                    [kind |-> "event", event_type |-> INVOICE_PAID, aggregate_id |-> 1],
                    [kind |-> "event", event_type |-> "invoice.voided", aggregate_id |-> 1],
                    [kind |-> "event", event_type |-> "", aggregate_id |-> 1]}
                   \cup {[kind |-> "event", event_type |-> INVOICE_PAYMENT_REQUESTED,
                          aggregate_id |-> i] : i \in 1..MaxInvoices} :
          queue' = queue \cup {[id |-> nmsgs + 1, kind |-> body.kind,
                                event_type |-> body.event_type,
                                aggregate_id |-> body.aggregate_id, visible |-> TRUE]}
    /\ nmsgs' = nmsgs + 1
    /\ UNCHANGED <<mainVars, pool, storeVars, proc, clock, idVars, ncalls, nfaults, published, consumer, dlog>>

\* the visibility timeout of a received, undeleted message expires (only
\* receive_message observes visibility, so the expiry is taken when the
\* consumer polls)
VisibilityTimeout ==
    /\ consumer.pc = "receive"
    /\ \E m \in queue :
          /\ ~m.visible
          /\ queue' = (queue \ {m}) \cup {[m EXCEPT !.visible = TRUE]}
    /\ UNCHANGED <<mainVars, pool, storeVars, proc, clock, idVars, ncalls, nfaults, published, nmsgs, consumer,
                   dlog>>

\* receive_message returns a batch of at most max_messages messages
Receive ==
    /\ consumer.pc = "receive"
    /\ \E n \in 1..MaxMessages :
          \E b \in Batches({m.id : m \in {x \in queue : x.visible}}, n) :
             /\ consumer' = [consumer EXCEPT !.pc = "message", !.batch = b, !.idx = 1,
                                             !.ok = FALSE]
             /\ queue' = {IF \E i \in 1..n : b[i] = m.id THEN [m EXCEPT !.visible = FALSE] ELSE m :
                          m \in queue}
    /\ UNCHANGED <<mainVars, pool, storeVars, proc, clock, idVars, ncalls, nfaults, published, nmsgs, dlog>>

\* receive_message raises: ClientError is logged and the loop goes on, any
\* other exception leaves consume
ReceiveError ==
    /\ consumer.pc = "receive"
    /\ nfaults < MaxFaults
    /\ nfaults' = nfaults + 1
    /\ \E isClientError \in BOOLEAN :
          consumer' = [consumer EXCEPT !.pc = IF isClientError THEN "receive" ELSE "terminated"]
    /\ UNCHANGED <<mainVars, pool, storeVars, proc, clock, idVars, ncalls, published, queue, nmsgs, dlog>>

AfterMessageFailureStops(c) == [c EXCEPT !.pc = "terminated"]

\* the loop after one message: the next message of the batch, or poll again
NextMessage(c) ==
    IF c.idx < Len(c.batch)
    THEN [c EXCEPT !.pc = "message", !.idx = @ + 1, !.ok = FALSE]
    ELSE [c EXCEPT !.pc = "receive", !.batch = <<>>, !.idx = 0, !.ok = FALSE]

\* except Exception: logger.error(...); nack(receipt_handle)
AfterMessageFailure(c) == NextMessage(c)

QueueAfterNackDeletes(q, id) == {m \in q : m.id # id}

\* nack: the message is not deleted
QueueAfterNack(q, id) == q

\* ack: delete_message
QueueAfterAck(q, id) == {m \in q : m.id # id}

\* json.loads accepts the body and the body has the fields of an event
Deserializable(m) == m.kind = "event"

\* the event types with an event class (entry/worker/main.py)
EVENT_CLASSES ==
    {USER_CREATED, USER_UPDATED, INVOICE_CREATED, INVOICE_PAYMENT_REQUESTED, INVOICE_PAID}

\* deserialize_event: the class the event is built with, named by its event
\* type, BaseEvent for an event type without a class
deserialize_event(event_type) == IF event_type \in EVENT_CLASSES THEN event_type ELSE "BaseEvent"

\* consume_queue.deserializer: the event type the message declares, the
\* queue's event type when it declares none
deserializer(queue_event_type, m) ==
    deserialize_event(IF m.event_type = "" THEN queue_event_type ELSE m.event_type)

event_handlerOfDeclared(queue_event_type, m) ==
    IF m.event_type = "" THEN queue_event_type ELSE m.event_type

\* consume_queue.event_handler: the handler the event is passed to, named by
\* the event type it is registered for
event_handler(queue_event_type, m) == queue_event_type

ExpectedEventAny(cls, handler) == TRUE

\* XHandler.handle: isinstance(event, XEvent)
ExpectedEvent(cls, handler) == cls = handler

\* one message: json.loads, deserializer, handler(event) up to the first await
\* of InvoiceService.mark_invoice_paid
ProcessMessage ==
    /\ consumer.pc = "message"
    /\ LET m == Msg(Current)
           cls == deserializer(INVOICE_PAYMENT_REQUESTED, m)
           handler == event_handler(INVOICE_PAYMENT_REQUESTED, m)
           entry == [msg |-> m.id, inv |-> m.aggregate_id, declared |-> m.event_type,
                     cls |-> cls, handler |-> handler, ok |-> FALSE]
       IN IF ~Deserializable(m)
          THEN /\ consumer' = AfterMessageFailure(consumer)
               /\ queue' = QueueAfterNack(queue, m.id)
               /\ dlog' = dlog \cup {[entry EXCEPT !.cls = "none", !.handler = "none"]}
               /\ UNCHANGED proc
          ELSE IF ~ExpectedEvent(cls, handler)
          THEN /\ consumer' = AfterMessageFailure(consumer)
               /\ queue' = QueueAfterNack(queue, m.id)
               /\ dlog' = dlog \cup {entry}
               /\ UNCHANGED proc
          ELSE IF handler = INVOICE_PAYMENT_REQUESTED
          THEN /\ proc[Worker].pc \in {"idle", "done"}
               /\ proc' = Upd(Worker, [IdleProc EXCEPT !.pc = "mp_get", !.op = "mark_invoice_paid",
                                           !.pubFrom = Len(published),
                                           !.arg = [NoArg EXCEPT !.iid = m.aggregate_id],
                                           !.tx = "open"])
               /\ consumer' = [consumer EXCEPT !.pc = "handling"]
               /\ UNCHANGED <<queue, dlog>>
          ELSE /\ consumer' = [consumer EXCEPT !.pc = "ack", !.ok = TRUE]
               /\ dlog' = dlog \cup {[entry EXCEPT !.ok = TRUE]}
               /\ UNCHANGED <<queue, proc>>
    /\ UNCHANGED <<mainVars, pool, storeVars, clock, idVars, ncalls, nfaults, published, nmsgs>>

\* handler(event) returns or raises
HandlerDone ==
    /\ consumer.pc = "handling"
    /\ proc[Worker].pc = "done"
    /\ LET m == Msg(Current)
           ok == proc[Worker].err = NoErr
       IN /\ consumer' = IF ok THEN [consumer EXCEPT !.pc = "ack", !.ok = TRUE]
                         ELSE AfterMessageFailure(consumer)
          /\ queue' = IF ok THEN queue ELSE QueueAfterNack(queue, m.id)
          /\ dlog' = dlog \cup {[msg |-> m.id, inv |-> m.aggregate_id, declared |-> m.event_type,
                                 cls |-> deserializer(INVOICE_PAYMENT_REQUESTED, m),
                                 handler |-> event_handler(INVOICE_PAYMENT_REQUESTED, m),
                                 ok |-> ok]}
    /\ proc' = Upd(Worker, IdleProc)
    /\ UNCHANGED <<mainVars, pool, storeVars, clock, idVars, ncalls, nfaults, published, nmsgs>>

\* await self.ack(receipt_handle)
Ack ==
    /\ consumer.pc = "ack"
    /\ queue' = QueueAfterAck(queue, Current)
    /\ consumer' = NextMessage(consumer)
    /\ UNCHANGED <<mainVars, pool, storeVars, proc, clock, idVars, ncalls, nfaults, published, nmsgs, dlog>>

\* delete_message raises ClientError: ack re-raises, the loop's except clause
\* takes it
AckFail ==
    /\ consumer.pc = "ack"
    /\ nfaults < MaxFaults
    /\ nfaults' = nfaults + 1
    /\ queue' = QueueAfterNack(queue, Current)
    /\ consumer' = AfterMessageFailure(consumer)
    /\ UNCHANGED <<mainVars, pool, storeVars, proc, clock, idVars, ncalls, published, nmsgs, dlog>>

\* ------------------------------------------------------------------------
\* Specifications
\* ------------------------------------------------------------------------
\* entry/worker/main.py: one consume_queue task per configured queue, awaited
\* together by main()

\* asyncio.gather(*tasks) without return_exceptions: the first exception is
\* raised in main(), main() ends and the event loop cancels the tasks left
AfterTaskFailurePropagates(ts, t) ==
    [u \in DOMAIN ts |->
        IF u = t THEN [ts[u] EXCEPT !.st = "failed"]
        ELSE IF ts[u].st = "running" THEN [ts[u] EXCEPT !.st = "cancelled"] ELSE ts[u]]

\* asyncio.gather(*tasks, return_exceptions=True): the exception of a task is
\* kept as its result, the other tasks are left alone
AfterTaskFailure(ts, t) == [ts EXCEPT ![t].st = "failed"]

\* some task other than t has ended with an exception
OtherFailed(ts, t) == \E u \in DOMAIN ts : u # t /\ ts[u].st = "failed"

\* one round of the consume loop of task t: a message of its queue is
\* received and processed
TaskHandle(t) ==
    /\ tasks[t].st = "running"
    /\ tasks[t].handled < MaxHandled
    /\ tasks' = [tasks EXCEPT ![t].handled = @ + 1,
                              ![t].after = IF OtherFailed(tasks, t) THEN @ + 1 ELSE @]
    /\ UNCHANGED <<storeVars, proc, clock, idVars, ncalls, nfaults, published, queueVars, mainpc, pool>>

\* consume raises in task t: consume_queue logs "Fatal error in consumer" and
\* raises again, which ends the task
TaskFail(t) ==
    /\ tasks[t].st = "running"
    /\ tasks' = AfterTaskFailure(tasks, t)
    /\ UNCHANGED <<storeVars, proc, clock, idVars, ncalls, nfaults, published, queueVars, mainpc, pool>>

\* every task has ended: gather returns the results, main() logs the
\* exceptions among them and returns
GatherReturns ==
    /\ mainpc = "gather"
    /\ \A t \in DOMAIN tasks : tasks[t].st # "running"
    /\ mainpc' = "returned"
    /\ UNCHANGED <<storeVars, proc, clock, idVars, ncalls, nfaults, published, queueVars, tasks, pool>>

\* the shutdown signal while main() waits in gather: every task is cancelled
Shutdown ==
    /\ mainpc = "gather"
    /\ tasks' = [t \in DOMAIN tasks |->
                    IF tasks[t].st = "running" THEN [tasks[t] EXCEPT !.st = "cancelled"]
                    ELSE tasks[t]]
    /\ mainpc' = "interrupted"
    /\ UNCHANGED <<storeVars, proc, clock, idVars, ncalls, nfaults, published, queueVars, pool>>

\* ------------------------------------------------------------------------
\* the pooled connection of a unit of work: get_db_connection and the
\* transaction manager for a request, the handler and the transaction manager
\* for a message of the worker

\* settings.postgres_max_pool_size
max_size == 2

\* no connection acquired: position, the proxy holds a connection, the
\* manager's _released flag, calls of pool.release, returns to the pool
IdleConn == [pc |-> "idle", held |-> FALSE, released |-> FALSE, calls |-> 0, returns |-> 0,
             outcome |-> "", event |-> ""]

PoolReleaseAgain(pl, p) ==
    [pl EXCEPT !.free = @ + 1,
               !.conn[p] = [@ EXCEPT !.held = FALSE, !.calls = @ + 1, !.returns = @ + 1]]

\* pool.release(connection): the connection goes back to the pool; the call
\* does nothing for a connection that was released already
PoolRelease(pl, p) ==
    IF pl.conn[p].held
    THEN [pl EXCEPT !.free = @ + 1,
                    !.conn[p] = [@ EXCEPT !.held = FALSE, !.calls = @ + 1, !.returns = @ + 1]]
    ELSE [pl EXCEPT !.conn[p].calls = @ + 1]

\* connection = await pool.acquire(), at the start of a request or of a
\* handled message
Acquire(p) ==
    /\ ncalls < MaxCalls
    /\ ncalls' = ncalls + 1
    /\ pool.conn[p].pc \in {"idle", "closed"}
    /\ pool.free > 0
    /\ pool' = [pool EXCEPT !.free = @ - 1,
                            !.conn[p] = [IdleConn EXCEPT !.pc = "acquired", !.held = TRUE]]
    /\ UNCHANGED <<mainVars, storeVars, proc, clock, idVars, nfaults, published, queueVars>>

\* XHandler.handle(event) of the handler registered for event type handler,
\* given an event of class cls: TypeError unless the event is of the
\* handler's class; then InvoicePaymentRequestedHandler acquires a connection
\* and the other handlers log the event and return
Handle(handler, cls) ==
    /\ ncalls < MaxCalls
    /\ ncalls' = ncalls + 1
    /\ pool.conn[Worker].pc \in {"idle", "closed"}
    /\ IF ExpectedEvent(cls, handler) /\ handler = INVOICE_PAYMENT_REQUESTED
       THEN /\ pool.free > 0
            /\ pool' = [pool EXCEPT !.free = @ - 1,
                                    !.conn[Worker] = [IdleConn EXCEPT !.pc = "acquired",
                                                                      !.held = TRUE,
                                                                      !.event = cls]]
            /\ UNCHANGED dlog
       ELSE /\ dlog' = dlog \cup {[msg |-> 0, inv |-> 0, declared |-> cls, cls |-> cls,
                                   handler |-> handler, ok |-> ExpectedEvent(cls, handler)]}
            /\ UNCHANGED pool
    /\ UNCHANGED <<mainVars, storeVars, proc, clock, idVars, nfaults, published, queue, nmsgs,
                   consumer>>

\* InvoicePaymentRequestedHandler.handle between pool.acquire() and its try
\* statement: `raise ValueError` when no topic ARN is configured, or
\* SNSPublisher(settings, topic_arn) raises; handle is left with the exception
HandlerSetupFail ==
    /\ pool.conn[Worker].pc = "acquired"
    /\ pool' = [pool EXCEPT !.conn[Worker].pc = "raised", !.conn[Worker].outcome = "setup_failed"]
    /\ UNCHANGED <<mainVars, storeVars, proc, clock, idVars, ncalls, nfaults, published, queueVars>>

\* transaction(): tx = self.conn.transaction(); await tx.start(), which
\* raises before the try statement when the store fails
TxStart(p) ==
    /\ pool.conn[p].pc = "acquired"
    /\ \E started \in BOOLEAN :
          pool' = [pool EXCEPT !.conn[p].pc = IF started THEN "in_tx" ELSE "exit",
                               !.conn[p].outcome = IF started THEN "" ELSE "not_started"]
    /\ UNCHANGED <<mainVars, storeVars, proc, clock, idVars, ncalls, nfaults, published, queueVars>>

\* transaction(): the block ends, commit or rollback, then the finally clause
TxExit(p) ==
    /\ pool.conn[p].pc = "in_tx"
    /\ \E outcome \in {"commit", "rollback"} :
          pool' = [PoolRelease(pool, p) EXCEPT !.conn[p].pc = "exit", !.conn[p].released = TRUE,
                                               !.conn[p].outcome = outcome]
    /\ UNCHANGED <<mainVars, storeVars, proc, clock, idVars, ncalls, nfaults, published, queueVars>>

\* the end of the unit of work: the finally clause of get_db_connection
\* for a request, of InvoicePaymentRequestedHandler.handle for a message
ScopeExit(p) ==
    /\ pool.conn[p].pc = "exit"
    /\ pool' = [(IF p = Worker /\ pool.conn[p].released THEN pool ELSE PoolRelease(pool, p))
                   EXCEPT !.conn[p].pc = "closed"]
    /\ UNCHANGED <<mainVars, storeVars, proc, clock, idVars, ncalls, nfaults, published, queueVars>>

\* ------------------------------------------------------------------------
\* the system after create_user("a@b.com", "A", 30) and create_invoice of that
\* user: one stored user with one PENDING invoice, the three events of the two
\* calls published, the invoice.payment_requested message on the queue
Init ==
    /\ users = {[id |-> 1, email |-> "a@b.com", name |-> <<"A">>, age |-> 30,
                 created_at |-> 1, updated_at |-> 1]}
    /\ invoices = {[id |-> 1, user_id |-> 1, amount |-> 10000, status |-> PENDING,
                    created_at |-> 2, updated_at |-> 2, paid_at |-> Null]}
    /\ proc = [p \in Procs |-> IdleProc]
    /\ clock = 3
    /\ nextUid = 2
    /\ nextIid = 2
    /\ ncalls = 0
    /\ nfaults = 0
    /\ published = <<[event_type |-> USER_CREATED, aggregate_type |-> "user", aggregate_id |-> 1,
                      by |-> 0],
                     [event_type |-> INVOICE_CREATED, aggregate_type |-> "invoice",
                      aggregate_id |-> 1, by |-> 0],
                     [event_type |-> INVOICE_PAYMENT_REQUESTED, aggregate_type |-> "invoice",
                      aggregate_id |-> 1, by |-> 0]>>
    /\ queue = {[id |-> 1, kind |-> "event", event_type |-> INVOICE_PAYMENT_REQUESTED,
                 aggregate_id |-> 1, visible |-> TRUE]}
    /\ nmsgs = 1
    /\ consumer = IdleConsumer
    /\ dlog = {}
    /\ tasks = [t \in queue_urls |-> [st |-> "running", handled |-> 0, after |-> 0]]
    /\ mainpc = "gather"
    /\ pool = [free |-> max_size, conn |-> [p \in Procs |-> IdleConn]]

\* the transaction manager around every service call
TxStep(p) == TxCommit(p) \/ TxCommitFail(p) \/ TxRollback(p) \/ RepoFault(p) \/ PublishFail(p)

\* the HTTP facade calling UserService and InvoiceService.create_invoice
Next ==
    \E p \in ApiProcs :
        \/ CallCreateUser(p, Emails, Names, {Null})
        \/ CallPatchUser(p, Emails, {<<"B">>}, {Null})
        \/ CallDeleteUser(p)
        \/ CallCreateInvoice(p, {10000})
        \/ CuCheck(p) \/ CuInsert(p) \/ CuPublish(p)
        \/ PuGet(p) \/ PuCheck(p) \/ PuUpdate(p) \/ PuPublish(p)
        \/ DuGet(p) \/ DuInvoices(p) \/ DuUser(p)
        \/ CiInsert(p) \/ CiPublish(p) \/ CiPublish2(p)
        \/ TxStep(p)

Spec == Init /\ [][Next]_vars

\* the callers of InvoiceService: the HTTP facade, and for mark_invoice_paid
\* the payment_requested handler of each worker process
NextInvoice ==
    \E p \in ApiProcs :
        \/ CallCreateInvoice(p, Amounts) \/ CallMarkInvoicePaid(p) \/ CallRequestPayment(p)
        \/ CiInsert(p) \/ CiPublish(p) \/ CiPublish2(p)
        \/ MpGet(p) \/ MpUpdate(p) \/ MpPublish(p)
        \/ RpGet(p) \/ RpPublish(p)
        \/ TxStep(p)

SpecInvoice == Init /\ [][NextInvoice]_vars

\* patch_user with every kind of sparse update, next to create_user calls of
\* another client
NextPatch ==
    \/ CallPatchUser(1, PatchEmails, PatchNames, PatchAges)
    \/ PuGet(1) \/ PuCheck(1) \/ PuUpdate(1) \/ PuPublish(1)
    \/ CallCreateUser(2, {"c@d.com"}, {<<"A">>, <<" ">>}, {Null})
    \/ CuCheck(2) \/ CuInsert(2) \/ CuPublish(2)
    \/ \E p \in ApiProcs : TxStep(p)

SpecPatch == Init /\ [][NextPatch]_vars

\* every mutating operation of UserService and InvoiceService, on ids with
\* and without a row
NextService ==
    \E p \in ApiProcs :
        \/ CallCreateUser(p, {"c@d.com"}, {<<"A">>}, {Null})
        \/ CallCreateInvoice(p, {10000})
        \/ CuCheck(p) \/ CuInsert(p) \/ CuPublish(p)
        \/ CiInsert(p) \/ CiPublish(p) \/ CiPublish2(p)
        \/ CallPatchUser(p, {"c@d.com"}, {<<"B">>}, {31})
        \/ CallDeleteUser(p)
        \/ CallMarkInvoicePaid(p)
        \/ CallRequestPayment(p)
        \/ PuGet(p) \/ PuCheck(p) \/ PuUpdate(p) \/ PuPublish(p)
        \/ DuGet(p) \/ DuInvoices(p) \/ DuUser(p)
        \/ MpGet(p) \/ MpUpdate(p) \/ MpPublish(p)
        \/ RpGet(p) \/ RpPublish(p)
        \/ TxStep(p)

SpecService == Init /\ [][NextService]_vars

\* the listings of one request, next to create_user and create_invoice calls
\* of another that add rows
NextList ==
    \/ CallList(1) \/ LsList(1) \/ LsCount(1)
    \/ CallCreateUser(2, {"c@d.com"}, {<<"A">>}, {Null})
    \/ CallCreateInvoice(2, {10000})
    \/ CuCheck(2) \/ CuInsert(2) \/ CuPublish(2)
    \/ CiInsert(2) \/ CiPublish(2) \/ CiPublish2(2)
    \/ \E p \in ApiProcs : TxStep(p)

SpecList == Init /\ [][NextList]_vars

\* the worker consuming the invoice.payment_requested queue
NextWorker ==
    \/ Send \/ VisibilityTimeout
    \/ Receive \/ ReceiveError \/ ProcessMessage \/ HandlerDone \/ Ack \/ AckFail
    \/ MpGet(Worker) \/ MpUpdate(Worker) \/ MpPublish(Worker)
    \/ TxStep(Worker)

SpecWorker == Init /\ [][NextWorker]_vars

\* the steps of the worker's handler that are not faults
WorkerStep ==
    \/ MpGet(Worker) \/ MpUpdate(Worker) \/ MpPublish(Worker)
    \/ TxCommit(Worker) \/ TxRollback(Worker)

\* the consumer under fair scheduling: the consume loop and the handler keep
\* running, the visibility timeout of every received message expires, and
\* the queue hands out every message that stays or becomes visible again
LiveWorker ==
    /\ SpecWorker
    /\ WF_vars(ProcessMessage \/ HandlerDone \/ Ack)
    /\ WF_vars(WorkerStep)
    /\ \A i \in 1..MaxMsgs :
          /\ SF_vars(VisibilityTimeout /\ \E m \in queue' \ queue : m.id = i)
          /\ SF_vars(Receive /\ \E k \in DOMAIN consumer'.batch : consumer'.batch[k] = i)

\* the worker process: main() and its consume_queue tasks
NextMain ==
    \/ \E t \in queue_urls : TaskHandle(t) \/ TaskFail(t)
    \/ GatherReturns
    \/ Shutdown

SpecMain == Init /\ [][NextMain]_vars

\* the connection scopes of the requests and of the worker's handler
NextConn ==
    \/ \E p \in ApiProcs : Acquire(p)
    \/ \E handler \in EVENT_CLASSES, cls \in EVENT_CLASSES \cup {"BaseEvent"} : Handle(handler, cls)
    \/ HandlerSetupFail
    \/ \E p \in Procs : TxStart(p) \/ TxExit(p) \/ ScopeExit(p)

SpecConn == Init /\ [][NextConn]_vars

\* ------------------------------------------------------------------------
\* Properties
\* ------------------------------------------------------------------------
\* the events the current call of p has handed to the publisher
EventsOf(p) ==
    {published[i] : i \in {j \in (proc[p].pubFrom + 1)..Len(published) : published[j].by = p}}

\* p takes a step that is not a fault of store, topic or queue
Steps(p) == proc'[p] # proc[p] /\ nfaults' = nfaults

Commits(p) == proc[p].tx = "open" /\ proc'[p].tx = "committed"

RollsBack(p) == proc[p].tx = "open" /\ proc'[p].tx = "rolledback"

\* C1: a transaction scope whose block completes without raising is
\* committed, and exactly its writes become visible; a scope whose block
\* raises is rolled back before the exception reaches the caller, the same
\* exception propagates and the store is left as it was; the store changes in
\* no other step.
C1_CommitOrRollback ==
    [][/\ \A p \in Procs :
            /\ Commits(p) => /\ proc[p].pc = "commit" /\ proc[p].err = NoErr
                             /\ users' = ViewUsers(p) /\ invoices' = ViewInvoices(p)
            /\ RollsBack(p) => /\ proc[p].err # NoErr
                               /\ proc'[p].err = proc[p].err
                               /\ proc'[p].pc = "done"
                               /\ users' = users /\ invoices' = invoices
            /\ (proc[p].tx = "open" /\ proc'[p].pc = "done") => (Commits(p) \/ RollsBack(p))
            /\ (proc'[p].pc = "done" /\ proc'[p].err = NoErr) => proc'[p].tx = "committed"
            /\ (proc[p].tx = "open" /\ proc[p].pc # "commit" /\ proc'[p].pc = "commit")
                  => proc'[p].err = NoErr
       /\ (users' # users \/ invoices' # invoices) => \E p \in Procs : Commits(p)
      ]_vars

\* C1 witness: one call committed its writes and another call, whose block
\* raised after a write, was rolled back
C1_Witness ==
    \E p, q \in ApiProcs :
        /\ proc[p].pc = "done" /\ proc[p].tx = "committed" /\ proc[p].wrote > 0
        /\ proc[q].pc = "done" /\ proc[q].tx = "rolledback" /\ proc[q].wrote > 0
        /\ proc[q].err.kind = "EventValidationError"

\* C2: an event that announces a mutation (user.created, user.updated,
\* invoice.created, invoice.paid) is handed to the publisher only after the
\* transaction of that mutation has committed, and never for a mutation that
\* is rolled back.
C2_PublishedOnlyAfterCommit ==
    \A p \in Procs :
        \A e \in EventsOf(p) : e.event_type \in MutationEvents => proc[p].tx = "committed"

\* C3: no two committed user rows have the same email.
C3_UniqueEmail ==
    \A r1, r2 \in users : r1.email = r2.email => r1.id = r2.id

\* C3 witness: a create_user has passed its existence check and is about to
\* insert while another call has committed a user with the same email
C3_Witness ==
    \E p \in ApiProcs :
        /\ proc[p].pc = "cu_insert"
        /\ \E r \in users : r.email = proc[p].arg.email

\* C4: create_user whose lookup finds a stored user with the email fails with
\* DuplicateError(entity_type "User", field "email", value = the email); the
\* call writes nothing and publishes no event.
C4_DuplicateEmail ==
    [][\A p \in ApiProcs :
          /\ (/\ proc[p].pc = "cu_check" /\ Steps(p)
              /\ \E r \in ViewUsers(p) : r.email = proc[p].arg.email)
                => /\ proc'[p].pc = "rollback"
                   /\ proc'[p].err.kind = "DuplicateError"
                   /\ proc'[p].err.entity_type = "User"
                   /\ proc'[p].err.field = "email"
                   /\ proc'[p].err.value = proc[p].arg.email
                   /\ published' = published
          /\ (proc'[p].op = "create_user" /\ proc'[p].err.kind = "DuplicateError")
                => /\ proc'[p].wrote = 0
                   /\ proc'[p].uw = {}
                   /\ proc'[p].tx # "committed"
                   /\ \A i \in (proc'[p].pubFrom + 1)..Len(published') : published'[i].by # p
      ]_vars

\* C4 witness: a create_user call has ended with DuplicateError
C4_Witness ==
    \E p \in ApiProcs :
        /\ proc[p].op = "create_user" /\ proc[p].pc = "done"
        /\ proc[p].err.kind = "DuplicateError"
        /\ \E r \in users : r.email = proc[p].arg.email

\* the words w occur in the message msg, one after the other
ContainsWords(msg, w) ==
    \E i \in 0..(Len(msg) - Len(w)) : \A j \in 1..Len(w) : msg[i + j] = w[j]

\* C5: mark_invoice_paid on a PENDING invoice stores the invoice as PAID with
\* a non-null paid_at and publishes exactly one invoice.paid event whose
\* aggregate_id is the invoice id; a mark_invoice_paid that finds the invoice
\* PAID fails with a BusinessRuleError whose message contains "already paid",
\* writes nothing and publishes no event.
C5_MarkInvoicePaid ==
    [][\A p \in ApiProcs :
          /\ (proc[p].op = "mark_invoice_paid" /\ Commits(p))
                => /\ proc[p].inv.id = proc[p].arg.iid
                   /\ proc[p].inv.status = PAID
                   /\ proc[p].inv.paid_at # Null
                   /\ proc[p].inv \in invoices'
                   /\ Cardinality({i \in (proc[p].pubFrom + 1)..Len(published) :
                                      published[i].by = p}) = 1
                   /\ \A e \in EventsOf(p) : /\ e.event_type = INVOICE_PAID
                                             /\ e.aggregate_id = proc[p].arg.iid
                   /\ published' = published
          /\ (/\ proc[p].pc = "mp_get" /\ Steps(p)
              /\ \E r \in ViewInvoices(p) : r.id = proc[p].arg.iid /\ r.status = PAID)
                => /\ proc'[p].pc = "rollback"
                   /\ proc'[p].err.kind = "BusinessRuleError"
                   /\ ContainsWords(proc'[p].err.msg, <<"already", "paid">>)
                   /\ published' = published
          /\ (proc'[p].op = "mark_invoice_paid" /\ proc'[p].err.kind = "BusinessRuleError")
                => /\ proc'[p].wrote = 0
                   /\ proc'[p].iw = {}
                   /\ proc'[p].tx # "committed"
                   /\ \A i \in (proc'[p].pubFrom + 1)..Len(published') : published'[i].by # p
      ]_vars

\* C5 witness: one call has marked the invoice paid and the call after it on
\* the same invoice has ended with BusinessRuleError
C5_Witness ==
    \E p, q \in ApiProcs :
        /\ proc[p].op = "mark_invoice_paid" /\ proc[p].pc = "done"
        /\ proc[p].tx = "committed"
        /\ proc[q].op = "mark_invoice_paid" /\ proc[q].pc = "done"
        /\ proc[q].err.kind = "BusinessRuleError"
        /\ proc[q].arg.iid = proc[p].arg.iid
        /\ proc[p].inv \in invoices

\* C6: the status of an invoice goes one way: an invoice is created PENDING,
\* only a committing mark_invoice_paid changes a stored status, a stored PAID
\* invoice never becomes PENDING again, its paid_at never changes again, and
\* paid_at is null exactly when the status is PENDING.
C6_OneWayStatus ==
    [][/\ \A r \in invoices : \A r2 \in invoices' :
             (r2.id = r.id /\ r.status = PAID) => (r2.status = PAID /\ r2.paid_at = r.paid_at)
       /\ \A r \in invoices : \A r2 \in invoices' :
             (r2.id = r.id /\ r2.status # r.status)
                => \E p \in Procs : /\ Commits(p) /\ proc[p].op = "mark_invoice_paid"
                                    /\ proc[p].arg.iid = r.id
       /\ \A r2 \in invoices' : r2.id \notin Ids(invoices) => r2.status = PENDING
       /\ \A r2 \in invoices' : (r2.paid_at = Null) <=> (r2.status = PENDING)
      ]_vars

\* C7: delete_user is atomic: in its unit of work the invoices of the user are
\* deleted before the user row; when the unit commits, neither the user row nor
\* any invoice of the user is left; every other step of the call, a failure at
\* any point included, leaves users and invoices as they were.
C7_DeleteUserAtomic ==
    [][\A p \in ApiProcs :
          (proc[p].op = "delete_user" /\ proc[p].tx = "open") =>
             /\ Commits(p) => /\ proc[p].arg.uid \notin Ids(users')
                              /\ {r \in invoices' : r.user_id = proc[p].arg.uid} = {}
             /\ (proc'[p] # proc[p] /\ ~Commits(p)) => (users' = users /\ invoices' = invoices)
             /\ proc'[p].arg.uid \in proc'[p].ud
                   => {r \in ViewInvoices(p)' : r.user_id = proc'[p].arg.uid} = {}
      ]_vars

\* C7 witness: a delete_user failed after it had deleted the user's invoices,
\* and the user and the invoice are still stored
C7_Witness ==
    \E p \in ApiProcs :
        /\ proc[p].op = "delete_user" /\ proc[p].pc = "done"
        /\ proc[p].tx = "rolledback" /\ proc[p].wrote >= 1
        /\ proc[p].arg.uid \in Ids(users)
        /\ \E r \in invoices : r.user_id = proc[p].arg.uid

\* C8: the consumer deletes a message only after the handler has returned
\* without raising for that delivery; a delivery that fails in
\* deserialization or in the handler leaves the message on the queue.
C8_AckOnlyAfterSuccess ==
    [][/\ \A m \in queue :
             m.id \notin Ids(queue')
                => /\ consumer.pc = "ack" /\ consumer.ok
                   /\ Current = m.id
                   /\ \E d \in dlog : d.msg = m.id /\ d.inv = m.aggregate_id /\ d.ok
       /\ \A d \in dlog' \ dlog :
             /\ d.msg = Current
             /\ ~d.ok => (d.msg \in Ids(queue') /\ consumer'.pc # "ack")
             /\ d.ok => consumer'.pc = "ack"
       /\ (consumer.pc \in {"message", "handling"} /\ consumer'.pc # consumer.pc
           /\ consumer'.pc # "ack")
             => Current \in Ids(queue')
      ]_vars

\* C8 witness: one delivery succeeded and its message is deleted, another
\* delivery failed and its message is still on the queue
C8_Witness ==
    \E d1, d2 \in dlog :
        /\ d1.ok /\ d1.msg \notin Ids(queue)
        /\ ~d2.ok /\ d2.msg \in Ids(queue)
        /\ \A d \in dlog : d.msg = d2.msg => ~d.ok

\* the handler has succeeded in an earlier delivery for invoice i
Succeeded(i) == \E d \in dlog : d.ok /\ d.inv = i

\* C9: the payment_requested handler makes the PENDING to PAID transition of
\* an invoice at most once: a delivery after the first successful one for the
\* same invoice writes nothing, commits nothing, publishes nothing and leaves
\* every stored field of the invoice as it was.
C9_AtLeastOnceTolerant ==
    [][(proc[Worker].pc # "idle" /\ Succeeded(proc[Worker].arg.iid))
          => /\ invoices' = invoices
             /\ ~Commits(Worker)
             /\ proc'[Worker].wrote = 0
             /\ proc'[Worker].iw = {}
             /\ \A i \in (Len(published) + 1)..Len(published') : published'[i].by # Worker
      ]_vars

\* C9 witness: a delivery for an invoice the handler already marked paid has
\* ended in the handler, with the invoice stored as PAID
C9_Witness ==
    /\ consumer.pc = "handling"
    /\ proc[Worker].pc = "done"
    /\ proc[Worker].err.kind = "BusinessRuleError"
    /\ Succeeded(proc[Worker].arg.iid)
    /\ \E r \in invoices : r.id = proc[Worker].arg.iid /\ r.status = PAID

\* C10: a failure while one message is processed never ends the consumption
\* loop: the loop goes on with the next message of the batch, and after the
\* last message of the batch it polls again.
C10_LoopSurvivesMessageFailure ==
    [][(consumer.pc \in {"message", "handling", "ack"} /\ consumer' # consumer)
          => /\ consumer'.pc # "terminated"
             /\ consumer'.pc \in {"message", "receive"}
                   => IF consumer.idx < Len(consumer.batch)
                      THEN /\ consumer'.pc = "message"
                           /\ consumer'.batch = consumer.batch
                           /\ consumer'.idx = consumer.idx + 1
                      ELSE consumer'.pc = "receive"
      ]_vars

\* C10 witness: the first message of a batch of two failed and is still on the
\* queue, and the loop is at the second message
C10_Witness ==
    /\ consumer.pc = "message"
    /\ Len(consumer.batch) = 2
    /\ consumer.idx = 2
    /\ consumer.batch[1] \in Ids(queue)
    /\ \E d \in dlog : d.msg = consumer.batch[1] /\ ~d.ok

\* C11: an error raised by the queue receive call never ends consume: the
\* consumer is back at polling after every failed receive_message.
C11_ReceiveErrorNeverEndsConsume ==
    [][(consumer.pc = "receive" /\ nfaults' # nfaults) => consumer'.pc = "receive"]_vars

\* C12: the consume_queue tasks are isolated failure domains: when one task
\* ends with an exception, no other task is cancelled or changed by that, a
\* task is cancelled only by the shutdown signal, and a running task can
\* always take the next message from its queue.
C12_ChannelsIsolated ==
    /\ [](\A t \in queue_urls :
            (tasks[t].st = "running" /\ tasks[t].handled < MaxHandled) => ENABLED TaskHandle(t))
    /\ [][\A t \in queue_urls :
            /\ (\E u \in queue_urls : u # t /\ tasks[u].st = "running" /\ tasks'[u].st = "failed")
                  => tasks'[t] = tasks[t]
            /\ (tasks[t].st = "running" /\ tasks'[t].st = "cancelled")
                  => mainpc = "gather" /\ mainpc' = "interrupted"
         ]_vars

\* C12 witness: the user.created task has failed, and the
\* invoice.payment_requested task has handled a message after that and is
\* still running
C12_Witness ==
    /\ tasks[USER_CREATED].st = "failed"
    /\ tasks[INVOICE_PAYMENT_REQUESTED].st = "running"
    /\ tasks[INVOICE_PAYMENT_REQUESTED].after > 0
    /\ mainpc = "gather"

\* C13 as stated: every message handled is passed to the handler registered
\* for the event type the message declares, also when that type is not the
\* type of the queue.
C13_DispatchedByDeclaredType ==
    \A d \in dlog :
        (d.handler # "none" /\ d.declared \in EVENT_CLASSES) => d.handler = d.declared

\* C13 amended: every message is decoded with the event class of the type it
\* declares (BaseEvent when the type has no class, the class of the queue's
\* type when it declares none) and is passed to the handler registered for
\* the type of the queue; an event that is not of that handler's class is
\* refused by the handler and the delivery fails.
C13_DecodedByDeclaredDispatchedByQueue ==
    \A d \in dlog :
        d.handler # "none"
           => /\ d.cls = IF d.declared = "" THEN INVOICE_PAYMENT_REQUESTED
                         ELSE IF d.declared \in EVENT_CLASSES THEN d.declared ELSE "BaseEvent"
              /\ d.handler = INVOICE_PAYMENT_REQUESTED
              /\ d.declared \notin {"", INVOICE_PAYMENT_REQUESTED} => ~d.ok

\* C13 witness: an invoice.paid event on the invoice.payment_requested queue
\* was decoded as an invoice.paid event, passed to the
\* invoice.payment_requested handler and refused by it; the message is still
\* on the queue
C13_Witness ==
    \E d \in dlog :
        /\ d.declared = INVOICE_PAID
        /\ d.cls = INVOICE_PAID
        /\ d.handler = INVOICE_PAYMENT_REQUESTED
        /\ ~d.ok
        /\ d.msg \in Ids(queue)

IsPatch(p) == proc[p].op = "patch_user"

\* C15: patch_user on an existing user with email, name and age all absent
\* writes nothing, returns the user as it was read and publishes no event.
C15_EmptyPatchReturnsUser ==
    \A p \in ApiProcs :
        (/\ IsPatch(p) /\ proc[p].pc = "done" /\ nfaults = 0
         /\ proc[p].arg.email = UNSET /\ proc[p].arg.name = UNSET_NAME
         /\ proc[p].arg.age = UNSET_INT
         /\ proc[p].err.kind # "NotFoundError")
           => /\ proc[p].err = NoErr
              /\ proc[p].wrote = 0
              /\ EventsOf(p) = {}

\* C16: patch_user on an existing user with an empty or whitespace-only name
\* fails with ValidationError(field "name") whatever email and age are given:
\* the email is never looked up, nothing is written, nothing is committed and
\* no event is published.
C16_BlankNameRejected ==
    /\ [](\A p \in ApiProcs :
            (IsPatch(p) /\ proc[p].arg.name \in {<<>>, <<" ">>})
               => /\ proc[p].pc \in {"pu_get", "rollback", "done"}
                  /\ proc[p].wrote = 0
                  /\ proc[p].tx # "committed"
                  /\ EventsOf(p) = {}
                  /\ proc[p].err.kind \in {"none", "ValidationError", "NotFoundError",
                                           "DatabaseError"})
    /\ [][\A p \in ApiProcs :
             (/\ IsPatch(p) /\ proc[p].pc = "pu_get" /\ Steps(p)
              /\ proc[p].arg.name \in {<<>>, <<" ">>}
              /\ \E r \in ViewUsers(p) : r.id = proc[p].arg.uid)
                => /\ proc'[p].pc = "rollback"
                   /\ proc'[p].err.kind = "ValidationError"
                   /\ proc'[p].err.field = "name"
         ]_vars

\* C16 witness: a patch of user 1 with a whitespace-only name and the email of
\* the stored user 2 has ended with ValidationError on name
C16_Witness ==
    /\ IsPatch(1) /\ proc[1].pc = "done"
    /\ proc[1].arg.uid = 1 /\ proc[1].arg.name = <<" ">> /\ proc[1].arg.email = "c@d.com"
    /\ \E r \in users : r.id = 2 /\ r.email = "c@d.com"
    /\ proc[1].err.kind = "ValidationError" /\ proc[1].err.field = "name"
    /\ users = {r \in users : r.updated_at = r.created_at}

\* C17: once the user is found and the name is accepted, patch_user with an
\* explicit email looks the email up exactly when it differs from the user's
\* current email, and raises DuplicateError("User", "email", that email)
\* exactly when the lookup finds a stored user; with the current email, or
\* without an email, there is no lookup and no DuplicateError.
C17_DuplicateEmailOnPatch ==
    /\ [](\A p \in ApiProcs :
            (IsPatch(p) /\ proc[p].err.kind = "DuplicateError")
               => /\ proc[p].err = DuplicateError("User", "email", proc[p].arg.email)
                  /\ proc[p].arg.email # UNSET
                  /\ proc[p].arg.email # proc[p].user.email)
    /\ [][\A p \in ApiProcs :
             /\ (/\ IsPatch(p) /\ proc[p].pc = "pu_get" /\ Steps(p)
                 /\ proc'[p].err.kind \notin {"NotFoundError", "ValidationError"})
                   => /\ proc'[p].err = NoErr
                      /\ proc'[p].pc = "pu_check"
                            <=> /\ proc[p].arg.email # UNSET
                                /\ \E r \in ViewUsers(p) :
                                      r.id = proc[p].arg.uid /\ r.email # proc[p].arg.email
                      /\ proc'[p].pc # "pu_check" => proc'[p].pc = "pu_update"
             /\ (IsPatch(p) /\ proc[p].pc = "pu_check" /\ Steps(p))
                   => IF \E r \in ViewUsers(p) : r.email = proc[p].arg.email
                      THEN /\ proc'[p].pc = "rollback"
                           /\ proc'[p].err = DuplicateError("User", "email", proc[p].arg.email)
                      ELSE proc'[p].pc = "pu_update" /\ proc'[p].err = NoErr
         ]_vars

\* C17 witness: a patch of user 1 with the email of the stored user 2 has
\* ended with DuplicateError on that email
C17_Witness ==
    /\ IsPatch(1) /\ proc[1].pc = "done"
    /\ proc[1].arg.uid = 1 /\ proc[1].arg.email = "c@d.com"
    /\ \E r \in users : r.id = 2 /\ r.email = "c@d.com"
    /\ proc[1].err = DuplicateError("User", "email", "c@d.com")

\* the fields of a patch given as an explicit value that differs from the
\* user as read
Differing(a, u) ==
    {f \in {"email"} : a.email # UNSET /\ a.email # u.email}
    \cup {f \in {"name"} : a.name # UNSET_NAME /\ a.name # u.name}
    \cup {f \in {"age"} : a.age # UNSET_INT /\ a.age # u.age}

\* C18: a patch_user whose update is applied publishes a user.updated event
\* if and only if a field given as an explicit value differs from the user's
\* current value; the changes of the event hold exactly the differing fields,
\* each with the old and the new value as strings; patch_user publishes
\* nothing else.
C18_ChangesOfPatch ==
    [][\A p \in ApiProcs :
          LET a == proc[p].arg
              u == proc[p].user
              c == proc'[p].changes
          IN /\ (IsPatch(p) /\ proc[p].pc = "pu_update" /\ proc'[p].pc \in {"pu_publish", "commit"})
                   => /\ c.keys = Differing(a, u)
                      /\ proc'[p].pc = "pu_publish" <=> Differing(a, u) # {}
                      /\ "email" \in c.keys => c.email = [old |-> u.email, new |-> a.email]
                      /\ "name" \in c.keys => c.name = [old |-> u.name, new |-> a.name]
                      /\ "age" \in c.keys
                            => /\ c.age.old = IF u.age = Null THEN "None" ELSE ToString(u.age)
                               /\ c.age.new = IF a.age = Null THEN "None" ELSE ToString(a.age)
             /\ (IsPatch(p) /\ Len(published') > Len(published)
                 /\ published'[Len(published')].by = p)
                   => /\ proc[p].pc = "pu_publish"
                      /\ proc[p].changes.keys # {}
                      /\ published'[Len(published')].event_type = USER_UPDATED
                      /\ published'[Len(published')].aggregate_id = a.uid
                      /\ published'[Len(published')].changes = proc[p].changes
             /\ (IsPatch(p) /\ proc[p].pc = "pu_publish" /\ Steps(p))
                   => Len(published') = Len(published) + 1
      ]_vars

\* C18 witness: a committed patch of user 1 (age 30) with its current email,
\* a new name and age null has published a user.updated event whose changes
\* are name and age, the age change being "30" to "None"
C18_Witness ==
    /\ IsPatch(1) /\ proc[1].pc = "done" /\ proc[1].tx = "committed"
    /\ proc[1].arg.email = "a@b.com"
    /\ \E e \in EventsOf(1) :
          /\ e.event_type = USER_UPDATED
          /\ e.changes.keys = {"name", "age"}
          /\ e.changes.name = [old |-> <<"A">>, new |-> <<"B">>]
          /\ e.changes.age = [old |-> "30", new |-> "None"]

\* the patch has exactly one field given as an explicit value
OneExplicit(a) ==
    Cardinality({f \in {"email"} : a.email # UNSET} \cup {f \in {"name"} : a.name # UNSET_NAME}
                \cup {f \in {"age"} : a.age # UNSET_INT}) = 1

\* the row a sparse update is meant to leave: every explicit field set, the
\* absent ones kept, updated_at refreshed
SparseRow(row, a, now) ==
    [row EXCEPT !.email = IF a.email # UNSET THEN a.email ELSE @,
                !.name = IF a.name # UNSET_NAME THEN a.name ELSE @,
                !.age = IF a.age # UNSET_INT THEN a.age ELSE @,
                !.updated_at = now]

\* C19: a sparse update with exactly one explicit field is applied and
\* changes only that column and updated_at of the stored user.
C19_OneFieldPatchApplied ==
    [][\A p \in ApiProcs :
          (/\ IsPatch(p) /\ proc[p].pc = "pu_update" /\ Steps(p)
           /\ OneExplicit(proc[p].arg)
           /\ UserById(p, proc[p].arg.uid) # NoUser
           /\ ~UniqueViolation(p, SparseRow(UserById(p, proc[p].arg.uid), proc[p].arg, clock)))
             => /\ proc'[p].pc \in {"pu_publish", "commit"}
                /\ SparseRow(UserById(p, proc[p].arg.uid), proc[p].arg, clock) \in proc'[p].uw
      ]_vars

\* C20: whenever patch_user writes the user, the age it writes is null for
\* an explicit null, the given integer for an explicit integer, and the
\* stored age for an absent age.
C20_AgeTriState ==
    [][\A p \in ApiProcs :
          (/\ IsPatch(p) /\ proc[p].pc = "pu_update"
           /\ proc'[p].pc \in {"pu_publish", "commit"} /\ proc'[p].wrote > proc[p].wrote)
             => \E r \in proc'[p].uw :
                   /\ r.id = proc[p].arg.uid
                   /\ r.age = IF proc[p].arg.age = UNSET_INT
                              THEN UserById(p, proc[p].arg.uid).age
                              ELSE proc[p].arg.age
      ]_vars

\* C21: create_user with a name that is empty or only whitespace ends with
\* ValidationError on field "name", inserts no user and publishes no event.
C21_CreateUserBlankNameRejected ==
    \A p \in ApiProcs :
        (/\ proc[p].op = "create_user" /\ proc[p].pc = "done" /\ nfaults = 0
         /\ Strip(proc[p].arg.name) = <<>>)
           => /\ proc[p].err.kind = "ValidationError"
              /\ proc[p].err.field = "name"
              /\ proc[p].tx # "committed"
              /\ EventsOf(p) = {}

\* C22: create_invoice for a user id without a user row ends with
\* NotFoundError("User", that id), inserts no invoice and publishes neither
\* invoice.created nor invoice.payment_requested.
C22_CreateInvoiceUnknownUser ==
    \A p \in ApiProcs :
        (/\ proc[p].op = "create_invoice" /\ proc[p].pc = "done" /\ nfaults = 0
         /\ proc[p].arg.uid \notin Ids(users))
           => /\ proc[p].err = NotFoundError("User", proc[p].arg.uid)
              /\ proc[p].tx # "committed"
              /\ EventsOf(p) = {}

\* the positions in published of the events of p's current call
EventIdx(p) == {j \in (proc[p].pubFrom + 1)..Len(published) : published[j].by = p}

\* C23: a create_invoice that returns has committed one new invoice with
\* status PENDING and has published exactly two events for it, first
\* invoice.created and then invoice.payment_requested; payment_requested is
\* published only once the creating transaction is committed, and never for
\* a creation that was rolled back.
C23_CreateInvoiceEvents ==
    /\ [](\A p \in ApiProcs :
            proc[p].op = "create_invoice"
               => /\ (proc[p].pc = "done" /\ proc[p].err = NoErr)
                        => /\ proc[p].tx = "committed"
                           /\ Cardinality(EventIdx(p)) = 2
                           /\ \E i, j \in EventIdx(p) :
                                 /\ i < j
                                 /\ published[i].event_type = INVOICE_CREATED
                                 /\ published[j].event_type = INVOICE_PAYMENT_REQUESTED
                                 /\ published[i].aggregate_id = proc[p].inv.id
                                 /\ published[j].aggregate_id = proc[p].inv.id
                  /\ proc[p].tx # "committed"
                        => \A j \in EventIdx(p) :
                              published[j].event_type # INVOICE_PAYMENT_REQUESTED)
    /\ [][\A p \in ApiProcs :
             (proc[p].op = "create_invoice" /\ Commits(p))
                => /\ proc[p].inv.status = PENDING
                   /\ proc[p].inv.id \notin Ids(invoices)
                   /\ invoices' = invoices \cup {proc[p].inv}
         ]_vars

\* C23 witness: a create_invoice has returned, its PENDING invoice is stored
\* and its two events are published
C23_Witness ==
    \E p \in ApiProcs :
        /\ proc[p].op = "create_invoice" /\ proc[p].pc = "done" /\ proc[p].err = NoErr
        /\ proc[p].inv \in invoices
        /\ proc[p].inv.status = PENDING
        /\ Cardinality(EventIdx(p)) = 2

\* C24: request_payment on an existing invoice, PENDING or PAID, goes on to
\* publish with the invoice as stored; a call that returns has published
\* exactly one invoice.payment_requested event for the invoice id, and no
\* step of request_payment changes any stored invoice.
C24_RequestPaymentFrame ==
    /\ [](\A p \in ApiProcs :
            proc[p].op = "request_payment"
               => /\ proc[p].wrote = 0 /\ proc[p].iw = {} /\ proc[p].idl = {}
                  /\ (proc[p].pc = "done" /\ proc[p].err = NoErr)
                        => /\ proc[p].inv.id = proc[p].arg.iid
                           /\ Cardinality(EventIdx(p)) = 1
                           /\ \A j \in EventIdx(p) :
                                 /\ published[j].event_type = INVOICE_PAYMENT_REQUESTED
                                 /\ published[j].aggregate_id = proc[p].arg.iid)
    /\ [][\A p \in ApiProcs :
             /\ (proc[p].op = "request_payment" /\ proc'[p] # proc[p]) => invoices' = invoices
             /\ (/\ proc[p].op = "request_payment" /\ proc[p].pc = "rp_get" /\ Steps(p)
                 /\ \E r \in invoices : r.id = proc[p].arg.iid)
                   => /\ proc'[p].pc = "rp_publish"
                      /\ proc'[p].inv \in invoices
                      /\ proc'[p].inv.id = proc[p].arg.iid
         ]_vars

\* C24 witness: request_payment on an invoice that is stored as PAID has
\* returned it and the invoice is stored as it was read
C24_Witness ==
    \E p \in ApiProcs :
        /\ proc[p].op = "request_payment" /\ proc[p].pc = "done" /\ proc[p].err = NoErr
        /\ proc[p].inv.status = PAID
        /\ proc[p].inv \in invoices
        /\ Cardinality(EventIdx(p)) = 1

\* the entity an operation names by id, and the id
TargetEntity(p) == IF proc[p].op \in {"patch_user", "delete_user"} THEN "User" ELSE "Invoice"

TargetId(p) == IF proc[p].op \in {"patch_user", "delete_user"} THEN proc[p].arg.uid
               ELSE proc[p].arg.iid

TargetMissing(p) ==
    IF proc[p].op \in {"patch_user", "delete_user"}
    THEN proc[p].arg.uid \notin Ids(ViewUsers(p))
    ELSE proc[p].arg.iid \notin Ids(ViewInvoices(p))

\* C25: mark_invoice_paid, request_payment, patch_user and delete_user on an
\* id without a row fail with NotFoundError carrying the entity type and the
\* id; such a call writes nothing, commits nothing and publishes no event.
C25_MissingAggregate ==
    /\ [](\A p \in ApiProcs :
            proc[p].err.kind = "NotFoundError"
               => /\ proc[p].err.entity_type = TargetEntity(p)
                  /\ proc[p].err.ident = TargetId(p)
                  /\ proc[p].wrote = 0
                  /\ proc[p].tx # "committed"
                  /\ EventIdx(p) = {})
    /\ [][\A p \in ApiProcs :
             /\ (/\ proc[p].pc \in {"mp_get", "rp_get", "pu_get", "du_get"} /\ Steps(p)
                 /\ TargetMissing(p))
                   => /\ proc'[p].pc = "rollback"
                      /\ proc'[p].err.kind = "NotFoundError"
                      /\ proc'[p].err.entity_type = TargetEntity(p)
                      /\ proc'[p].err.ident = TargetId(p)
             /\ (proc[p].err.kind = "NotFoundError" /\ proc'[p] # proc[p])
                   => /\ users' = users /\ invoices' = invoices /\ published' = published
                      /\ proc'[p].pc \in {"done", "rollback"} \/ proc'[p].err = NoErr
         ]_vars

\* C25 witness: a patch_user of a user id without a row and a
\* mark_invoice_paid of an invoice id without a row have both ended with
\* NotFoundError
C25_Witness ==
    \E p, q \in ApiProcs :
        /\ proc[p].op = "patch_user" /\ proc[p].pc = "done"
        /\ proc[p].err = NotFoundError("User", 2)
        /\ proc[q].op = "mark_invoice_paid" /\ proc[q].pc = "done"
        /\ proc[q].err = NotFoundError("Invoice", 2)
        /\ users = {r \in users : r.updated_at = r.created_at}

\* C26: when the publisher fails, the operation that asked for the publish
\* ends with the publisher's error: the error is not replaced or dropped on
\* the way out, nothing is published for the call afterwards, and no event
\* is handed to the publisher twice in one call.
C26_PublishFailurePropagates ==
    /\ [](\A p \in ApiProcs :
            /\ \A i, j \in EventIdx(p) :
                  i # j => published[i].event_type # published[j].event_type
            /\ Cardinality(EventIdx(p)) <= IF proc[p].op = "create_invoice" THEN 2 ELSE 1)
    /\ [][\A p \in ApiProcs :
             /\ (proc[p].pc \in PublishSteps /\ proc'[p] # proc[p] /\ nfaults' # nfaults)
                   => /\ proc'[p].err.kind = "ClientError"
                      /\ proc'[p].pc = IF proc[p].tx = "open" THEN "rollback" ELSE "done"
                      /\ published' = published
             /\ (proc[p].err.kind = "ClientError" /\ proc'[p] # proc[p])
                   => /\ published' = published
                      /\ \/ proc'[p].err = proc[p].err /\ proc'[p].pc = "done"
                         \/ proc[p].pc = "done" /\ proc'[p].err = NoErr
         ]_vars

\* C26 witness: a create_invoice has committed and published invoice.created,
\* the publish of invoice.payment_requested failed, and the call has ended
\* with the publisher's error
C26_Witness ==
    \E p \in ApiProcs :
        /\ proc[p].op = "create_invoice" /\ proc[p].pc = "done"
        /\ proc[p].err.kind = "ClientError"
        /\ proc[p].tx = "committed"
        /\ Cardinality(EventIdx(p)) = 1

\* the rows of the table a listing of p reads, as its transaction sees them,
\* that pass its filter
ListedFrom(p) ==
    IF proc[p].op = "list_users" THEN ViewUsers(p)
    ELSE IF proc[p].arg.uid = 0 THEN ViewInvoices(p)
    ELSE {r \in ViewInvoices(p) : r.user_id = proc[p].arg.uid}

\* C27: the list statement of list_users / list_invoices returns the window
\* [offset, offset + limit) of the matching rows in descending order of
\* created_at, the count statement returns the number of matching rows (all
\* rows of the table without a user_id), and with a user_id every invoice
\* returned is owned by that user.
C27_ListWindowAndTotal ==
    [][\A p \in ApiProcs :
          /\ (proc[p].pc = "ls_list" /\ proc'[p].pc = "ls_count")
                => LET items == proc'[p].items
                       n == Cardinality(ListedFrom(p))
                       a == proc[p].arg
                       rest == IF n > a.offset THEN n - a.offset ELSE 0
                   IN /\ Len(items) = IF rest < a.limit THEN rest ELSE a.limit
                      /\ \A k \in 1..Len(items) :
                            /\ items[k] \in ListedFrom(p)
                            /\ Cardinality({r \in ListedFrom(p) :
                                               r.created_at > items[k].created_at})
                                  = a.offset + k - 1
                            /\ (proc[p].op = "list_invoices" /\ a.uid # 0)
                                  => items[k].user_id = a.uid
          /\ (proc[p].pc = "ls_count" /\ proc'[p].pc = "commit")
                => /\ proc'[p].total = Cardinality(ListedFrom(p))
                   /\ proc'[p].items = proc[p].items
                   /\ (proc[p].op = "list_invoices" /\ proc[p].arg.uid = 0)
                         => proc'[p].total = Cardinality(ViewInvoices(p))
      ]_vars

\* C27 witness: with two invoices stored, a list_invoices with limit 1 and
\* offset 1 has returned the older invoice and total 2
C27_Witness ==
    \E p \in ApiProcs :
        /\ proc[p].op = "list_invoices" /\ proc[p].pc = "done" /\ proc[p].err = NoErr
        /\ proc[p].arg.limit = 1 /\ proc[p].arg.offset = 1
        /\ Cardinality(invoices) = 2
        /\ Len(proc[p].items) = 1
        /\ proc[p].items[1].id = 1
        /\ proc[p].total = 2

\* C28: a repository update on an id whose row no longer exists fails with
\* DatabaseError, in the User and in the Invoice repository, and leaves the
\* store as it was.
C28_UpdateOfVanishedRow ==
    [][\A p \in ApiProcs :
          /\ (/\ proc[p].pc = "mp_update"
              /\ proc[p].inv.id \notin Ids(ViewInvoices(p))
              /\ proc'[p] # proc[p])
                => /\ proc'[p].err.kind = "DatabaseError"
                   /\ UNCHANGED storeVars
          /\ (/\ proc[p].pc = "pu_update"
              /\ proc[p].arg.uid \notin Ids(ViewUsers(p))
              /\ proc'[p] # proc[p])
                => /\ proc'[p].err.kind = "DatabaseError"
                   /\ UNCHANGED storeVars
      ]_vars

\* C29: the raw-statement and the ORM-session backend are observationally
\* equivalent; in particular get_by_id on the same store returns the same
\* entity, age included, and the same error kind from both.
C29_BackendsAgreeOnGetById ==
    [][\A p \in ApiProcs :
          (/\ proc[p].pc \in {"pu_get", "du_get"}
           /\ proc'[p] # proc[p]
           /\ proc'[p].err = NoErr)
             => pg_get_by_id(p, proc[p].arg.uid) = [user |-> proc'[p].user, kind |-> "none"]
      ]_vars

\* C30: every committed invoice has amount > 0: a create_invoice call with a
\* zero or negative amount never commits, so no committed state holds an
\* invoice whose amount is not strictly positive.
C30_CommittedAmountsPositive ==
    /\ [](\A r \in invoices : r.amount > 0)
    /\ [][\A p \in ApiProcs :
             (proc[p].op = "create_invoice" /\ proc[p].arg.amount <= 0) => ~Commits(p)]_vars

\* C30 witness: a create_invoice with a negative amount inserted its row, was
\* rolled back on the event's validation error and left no such invoice
C30_Witness ==
    \E p \in ApiProcs :
        /\ proc[p].op = "create_invoice" /\ proc[p].arg.amount < 0
        /\ proc[p].inv.amount < 0
        /\ proc[p].tx = "rolledback" /\ proc[p].err = EventValidationError
        /\ \A r \in invoices : r.amount > 0

\* C31: repository delete and delete_by_user_id are total and idempotent:
\* on an id without a row, or a user without invoices, they raise nothing
\* and leave the tables as the unit of work sees them unchanged; after a
\* delete the row is absent, so the same delete applied again is that no-op.
C31_DeleteIdempotent ==
    [][\A p \in ApiProcs :
          /\ (proc[p].pc = "du_user" /\ proc'[p].pc # "du_user" /\ nfaults' = nfaults)
                => /\ proc'[p].pc = "commit" /\ proc'[p].err = NoErr
                   /\ UNCHANGED storeVars
                   /\ proc[p].arg.uid \notin Ids(ViewUsers(p)')
                   /\ proc[p].arg.uid \notin Ids(ViewUsers(p))
                         => /\ ViewUsers(p)' = ViewUsers(p)
                            /\ ViewInvoices(p)' = ViewInvoices(p)
          /\ (proc[p].pc = "du_invoices" /\ proc'[p].pc # "du_invoices" /\ nfaults' = nfaults)
                => /\ proc'[p].pc = "du_user" /\ proc'[p].err = NoErr
                   /\ UNCHANGED storeVars
                   /\ \A r \in ViewInvoices(p)' : r.user_id # proc[p].user.id
                   /\ (\A r \in ViewInvoices(p) : r.user_id # proc[p].user.id)
                         => /\ ViewUsers(p)' = ViewUsers(p)
                            /\ ViewInvoices(p)' = ViewInvoices(p)
      ]_vars

\* C31 witness: two delete_user calls for the same user both completed
\* without an error, so the later one deleted an id that had no row any more
C31_Witness ==
    /\ \A p \in ApiProcs :
          /\ proc[p].op = "delete_user" /\ proc[p].arg.uid = 1
          /\ proc[p].pc = "done" /\ proc[p].err = NoErr /\ proc[p].tx = "committed"
    /\ 1 \notin Ids(users)

\* C32: transactions are never nested: a transaction scope is opened only by
\* the entry of a service operation, on a unit of work that has none open;
\* once open it is closed exactly once, by a commit or a rollback, and no
\* second scope follows within the same operation; the invoice cascade of
\* delete_user runs inside the scope opened by UserService and neither opens,
\* commits nor rolls back anything itself.
C32_NoNestedTransactions ==
    [][\A p \in ApiProcs :
          /\ (proc'[p].tx = "open" /\ proc'[p] # proc[p]
                 /\ (proc[p].tx # "open" \/ ncalls' # ncalls))
                => /\ proc[p].tx # "open"
                   /\ proc[p].pc \in {"idle", "done"}
                   /\ ncalls' = ncalls + 1
          /\ (proc[p].tx = "open" /\ proc'[p].tx # "open")
                => /\ proc[p].pc \in {"commit", "rollback"}
                   /\ proc'[p].tx = IF proc[p].pc = "commit" THEN "committed" ELSE "rolledback"
          /\ (proc[p].tx \in {"committed", "rolledback"} /\ proc'[p].tx # proc[p].tx)
                => proc[p].pc \in {"idle", "done"} /\ proc'[p].tx = "open"
          /\ (proc[p].pc = "du_invoices" /\ proc'[p].pc = "du_user")
                => /\ proc[p].tx = "open" /\ proc'[p].tx = "open"
                   /\ UNCHANGED storeVars
      ]_vars

\* C32 witness: a delete_user call ran both of its delete statements, the
\* invoice cascade included, in one scope and committed them together
C32_Witness ==
    \E p \in ApiProcs :
        /\ proc[p].op = "delete_user" /\ proc[p].pc = "done" /\ proc[p].err = NoErr
        /\ proc[p].tx = "committed" /\ proc[p].wrote = 2
        /\ 1 \notin Ids(users) /\ 1 \notin Ids(invoices)

\* C33: each of the five event handlers, given an event that is not of its
\* event class, raises TypeError before any side effect: the delivery fails,
\* no connection is acquired, no service is called and nothing is published.
C33_WrongTypeRefused ==
    /\ [](/\ \A d \in dlog : (d.msg = 0 /\ d.cls # d.handler) => ~d.ok
          /\ pool.conn[Worker].event \in {"", INVOICE_PAYMENT_REQUESTED})
    /\ [][\A d \in dlog' \ dlog :
             d.cls # d.handler
                => /\ ~d.ok
                   /\ UNCHANGED <<pool, proc, published, storeVars, queue>>
      ]_vars

\* C33 witness: every handler has refused an event of another class, and all
\* connections are still in the pool
C33_Witness ==
    /\ \E d \in dlog : d.handler = INVOICE_PAYMENT_REQUESTED /\ d.cls = "BaseEvent" /\ ~d.ok
    /\ \E d \in dlog : d.handler = USER_CREATED /\ d.cls = INVOICE_PAID /\ ~d.ok
    /\ pool.free = max_size
    /\ pool.conn[Worker] = IdleConn

\* the publisher failed while the transaction scope of p's call was open
FailedInScope(p) ==
    /\ proc[p].err.kind = "ClientError"
    /\ proc[p].tx \in {"open", "rolledback"}

\* C34: a publish that fails inside the transaction scope of create_user,
\* patch_user, mark_invoice_paid or create_invoice leaves the store
\* unchanged: the scope is rolled back, never committed, and the row the call
\* wrote is not in the committed store.
C34_PublishFailureRollsBack ==
    /\ [](\A p \in ApiProcs :
            FailedInScope(p)
               => /\ proc[p].op \in {"create_user", "patch_user"}
                        => proc[p].user = NoUser \/ proc[p].user \notin users
                  /\ proc[p].op = "create_user" => proc[p].user.id \notin Ids(users)
                  /\ proc[p].op \in {"create_invoice", "mark_invoice_paid"}
                        => proc[p].inv \notin invoices
                  /\ proc[p].op = "create_invoice" => proc[p].inv.id \notin Ids(invoices))
    /\ [][\A p \in ApiProcs :
             (FailedInScope(p) /\ proc[p].tx = "open" /\ proc'[p] # proc[p])
                => /\ proc'[p].tx = "rolledback"
                   /\ proc'[p].err = proc[p].err
                   /\ UNCHANGED storeVars
         ]_vars

\* C34 witness: a mark_invoice_paid updated the invoice, its publish failed
\* and the scope was rolled back, so the stored invoice is still PENDING
C34_Witness ==
    \E p \in ApiProcs :
        /\ proc[p].op = "mark_invoice_paid" /\ proc[p].pc = "done"
        /\ proc[p].err.kind = "ClientError" /\ proc[p].tx = "rolledback"
        /\ proc[p].inv.status = PAID
        /\ \E r \in invoices : r.id = proc[p].inv.id /\ r.status = PENDING /\ r.paid_at = Null

\* C35: when the publish of invoice.payment_requested after the commit of
\* create_invoice fails, the call ends with the publisher's error, the
\* invoice it created stays committed (PENDING as created, unless another
\* call has paid it since), invoice.created stays published, and nothing is
\* rolled back or compensated.
C35_PostCommitPublishFailure ==
    /\ [](\A p \in ApiProcs :
            (proc[p].op = "create_invoice" /\ proc[p].tx = "committed"
             /\ proc[p].err.kind = "ClientError")
               => /\ proc[p].pc = "done"
                  /\ \E r \in invoices :
                        /\ r.id = proc[p].inv.id
                        /\ r = proc[p].inv \/ r.status = PAID
                  /\ proc[p].inv.status = PENDING
                  /\ \E e \in EventsOf(p) :
                        e.event_type = INVOICE_CREATED /\ e.aggregate_id = proc[p].inv.id
                  /\ \A e \in EventsOf(p) : e.event_type # INVOICE_PAYMENT_REQUESTED)
    /\ [][\A p \in ApiProcs :
             (proc[p].pc = "ci_publish2" /\ proc'[p] # proc[p] /\ nfaults' # nfaults)
                => /\ proc'[p].err.kind = "ClientError"
                   /\ proc'[p].pc = "done"
                   /\ proc'[p].tx = "committed"
                   /\ UNCHANGED <<storeVars, published, queue>>
         ]_vars

\* C35 witness: the post-commit publish of a create_invoice failed; the
\* invoice is stored PENDING as created, invoice.created is published and no
\* payment request for it is on the queue
C35_Witness ==
    \E p \in ApiProcs :
        /\ proc[p].op = "create_invoice" /\ proc[p].pc = "done"
        /\ proc[p].err.kind = "ClientError" /\ proc[p].tx = "committed"
        /\ proc[p].inv \in invoices /\ proc[p].inv.status = PENDING
        /\ \E i \in 1..Len(published) :
              /\ published[i].event_type = INVOICE_CREATED
              /\ published[i].aggregate_id = proc[p].inv.id
        /\ \A m \in queue : m.aggregate_id # proc[p].inv.id

\* C36: for every invoice at most one invoice.paid event is ever published,
\* whatever the interleaving of mark_invoice_paid calls, failed commits and
\* redelivered invoice.payment_requested messages.
C36_AtMostOnePaidEvent ==
    \A i \in 1..MaxInvoices :
        Cardinality({k \in 1..Len(published) :
                        /\ published[k].event_type = INVOICE_PAID
                        /\ published[k].aggregate_id = i}) <= 1

\* C37: referential integrity holds in every committed state: the user_id of
\* every stored invoice is the id of a stored user, under every interleaving
\* of create_invoice and delete_user calls.
C37_ReferentialIntegrity ==
    \A r \in invoices : r.user_id \in Ids(users)

\* C37 witness: a delete_user has committed the removal of user 1 and its
\* invoices while a create_invoice for user 1 was refused by the store
C37_Witness ==
    \E p, q \in ApiProcs :
        /\ proc[p].op = "delete_user" /\ proc[p].arg.uid = 1
        /\ proc[p].pc = "done" /\ proc[p].tx = "committed"
        /\ proc[q].op = "create_invoice" /\ proc[q].arg.uid = 1
        /\ proc[q].pc = "done" /\ proc[q].tx = "rolledback"
        /\ proc[q].err = StoreFault /\ nfaults = 0
        /\ 1 \notin Ids(users)
        /\ \A r \in invoices : r.user_id # 1

\* message i is an invoice.payment_requested message on the queue for a
\* stored invoice
Requested(i) ==
    \E m \in queue : /\ m.id = i /\ m.kind = "event"
                      /\ m.event_type = INVOICE_PAYMENT_REQUESTED
                      /\ m.aggregate_id \in Ids(invoices)

\* C38: while store, queue and topic stay available and the consumer runs,
\* every invoice.payment_requested message is eventually acknowledged and
\* removed from the queue, a payment request for an invoice that is already
\* PAID included.
C38_EventuallyAcked ==
    [](nfaults = 0 /\ consumer.pc # "terminated")
       => \A i \in 1..MaxMsgs : Requested(i) ~> (i \notin Ids(queue))

\* C39: while the consumer runs, every stored invoice with an
\* invoice.payment_requested message on the queue is eventually PAID with a
\* paid_at: a delivery that fails on a store or publisher fault is delivered
\* again and the invoice does not stay PENDING.
C39_EventuallyPaid ==
    [](consumer.pc # "terminated")
       => \A i \in 1..MaxInvoices :
             (/\ i \in Ids(invoices)
              /\ \E m \in queue : /\ m.kind = "event"
                                  /\ m.event_type = INVOICE_PAYMENT_REQUESTED
                                  /\ m.aggregate_id = i)
                ~> (\E r \in invoices : r.id = i /\ r.status = PAID /\ r.paid_at # Null)

\* C39 witness: a delivery for invoice 1 failed on a fault after its update,
\* a later delivery succeeded and the invoice is PAID
C39_Witness ==
    /\ nfaults = 1
    /\ \E d \in dlog : d.inv = 1 /\ d.declared = INVOICE_PAYMENT_REQUESTED /\ ~d.ok
    /\ \E d \in dlog : d.inv = 1 /\ d.declared = INVOICE_PAYMENT_REQUESTED /\ d.ok
    /\ \E r \in invoices : r.id = 1 /\ r.status = PAID /\ r.paid_at # Null
    /\ \E k \in 1..Len(published) :
          /\ published[k].event_type = INVOICE_PAID /\ published[k].aggregate_id = 1
          /\ published[k].by = Worker
    /\ \A m \in queue : m.aggregate_id # 1

\* C40: InvoicePaymentRequestedHandler.handle never leaks a pooled
\* connection: whenever handle has returned or raised after acquiring a
\* connection, the connection has gone back to the pool exactly once.
C40_HandlerNeverLeaks ==
    pool.conn[Worker].pc \in {"closed", "raised"}
       => /\ ~pool.conn[Worker].held
          /\ pool.conn[Worker].returns = 1

====
